---- MODULE Spec2Model ----
(***************************************************************************)
(* A model of kodi_panel's update loop (kodi_panel_display.py): the        *)
(* update_display() tick with its status / audio / video / slideshow       *)
(* branches, the static-image cache of audio_screens() and                 *)
(* video_screens(), the press handling, the wake timer of the status       *)
(* screen, and the lock shared by main() and touch_callback().             *)
(***************************************************************************)
EXTENDS Integers, Sequences, FiniteSets, TLC

(***************************************************************************)
(* Bounds of the model and settings of the program.                        *)
(***************************************************************************)

\* The clock stops advancing at MaxTime (seconds since start).
MaxTime == 3

\* SCREEN_WAKE_TIME of the settings file (_screen_wake), in seconds.
SCREEN_WAKE_TIME == 2

\* Python's None.
None == [kind |-> "None"]

\* ALAYOUT_NAMES, VLAYOUT_NAMES, SLAYOUT_NAMES of the settings file: the
\* members of ADisplay, VDisplay and SDisplay in definition order.
ALAYOUT_NAMES == <<"A_DEFAULT", "A_FULLSCREEN", "A_FULL_PROG">>

VLAYOUT_NAMES == <<"V_DEFAULT", "V_TV_SHOW", "V_PVR">>

SLAYOUT_NAMES == <<"S_DEFAULT", "S_FULL">>

ALAYOUT_INITIAL == "A_DEFAULT"

VLAYOUT_INITIAL == "V_DEFAULT"

SLAYOUT_INITIAL == "S_DEFAULT"

\* The keys of the V_LAYOUT table.
VIDEO_LAYOUT == {VLAYOUT_NAMES[i] : i \in 1..Len(VLAYOUT_NAMES)}

IndexOf(members, m) == CHOOSE i \in 1..Len(members) : members[i] = m

\* LayoutEnum.next(): the member after self, the last one wrapping to the first.
LayoutNext(members, self) ==
    LET index == IndexOf(members, self) + 1
    IN  IF index > Len(members) THEN members[1] ELSE members[index]

(***************************************************************************)
(* Telemetry.  A time string "[h:]m:s" is the sequence of its numbers,     *)
(* the empty string the empty sequence.                                    *)
(***************************************************************************)

A0 == [path |-> "http://a", title |-> "Song A", album |-> "X", artist |-> "P",
       time |-> <<1, 30>>, duration |-> <<3, 0>>, track |-> "1", cover |-> "c1"]

\* Audio snapshots: the base one and its variations in one field each, the
\* DLNA glitch and the AirPlay start-up snapshot.
AudioInfos ==
    { A0,
      [A0 EXCEPT !.time = <<0, 0>>],
      [A0 EXCEPT !.track = "2"],
      [A0 EXCEPT !.title = "Song B"],
      [A0 EXCEPT !.album = "Y"],
      [A0 EXCEPT !.duration = <<4, 0>>],
      [A0 EXCEPT !.artist = "Q"],
      [A0 EXCEPT !.time = <<0, 0>>, !.duration = <<>>, !.cover = ""],
      [A0 EXCEPT !.path = "pipe://11/", !.title = "AirPlay"] }

V0 == [path |-> "smb://m", title |-> "T1", episode |-> "", tvshow |-> "",
       origtitle |-> "", time |-> <<0, 10, 0>>, duration |-> <<1, 0, 0>>,
       cover |-> "v1"]

VideoInfos ==
    { V0,
      [V0 EXCEPT !.time = <<0, 0, 0>>],
      [V0 EXCEPT !.title = "T2"],
      [V0 EXCEPT !.episode = "2"],
      [V0 EXCEPT !.duration = <<2, 0, 0>>],
      [V0 EXCEPT !.tvshow = "Show"],
      [V0 EXCEPT !.path = "pvr://recordings/r"],
      [V0 EXCEPT !.time = <<0, 0, 0>>, !.duration = <<>>, !.cover = ""] }

SlideInfos == { [filename |-> "p1.jpg"], [filename |-> "p2.jpg"] }

StatusInfos == { [systime |-> "10:00"] }

\* What a requests.post(...).json() of update_display can come to, besides a
\* well-formed result: a transport failure, or a body without 'result'.
ConnErr == [kind |-> "ConnectionError"]

Malformed == [kind |-> "malformed"]

\* Player.GetActivePlayers: no 'result' key, an empty list, or the type of
\* the first active player.
PlayerResponses == {"noresult", "none", "audio", "video", "picture", "other"}

StartsWith(path, prefix) ==
    CASE prefix = "pipe://" -> path = "pipe://11/"
      [] prefix = "pvr://recordings" -> path = "pvr://recordings/r"
      [] prefix = "pvr://channels" -> path = "pvr://channels/c"
      [] OTHER -> FALSE

\* calc_progress(): -1 hides the bar, else the fraction done, capped at 1.
Secs(t) ==
    IF Len(t) = 2 THEN t[1] * 60 + t[2] ELSE t[1] * 3600 + t[2] * 60 + t[3]

calc_progress(time_str, duration_str) ==
    IF time_str = <<>> \/ duration_str = <<>> THEN [num |-> -1, den |-> 1]
    ELSE IF ~(Len(time_str) \in 2..3 /\ Len(duration_str) \in 2..3)
         THEN [num |-> -1, den |-> 1]
    ELSE LET cur_secs == Secs(time_str)
             total_secs == Secs(duration_str)
         IN  IF cur_secs >= 0 /\ total_secs > 0
             THEN IF cur_secs >= total_secs THEN [num |-> 1, den |-> 1]
                  ELSE [num |-> cur_secs, den |-> total_secs]
             ELSE [num |-> -1, den |-> 1]

(***************************************************************************)
(* Layouts and rendering.  A frame is a base (a black fill, a pasted       *)
(* static image, a background fill) and the layers drawn over it since.    *)
(***************************************************************************)

\* draw.rectangle over the whole frame, fill black.
Black == [base |-> [kind |-> "black"], over |-> <<>>]

\* main(): "Waiting to connect with Kodi..." on black.
WaitingScreen == [base |-> [kind |-> "black"],
                  over |-> << [kind |-> "text", text |-> "Waiting to connect with Kodi..."] >>]

\* A_LAYOUT of the settings file: cover art, progress bar, and the fields in
\* order, each with its dynamic flag.
AUDIO_LAYOUT(name) ==
    CASE name = "A_DEFAULT" ->
           [thumb |-> TRUE, prog |-> TRUE,
            fields |-> << [name |-> "title", dynamic |-> 0],
                          [name |-> "album", dynamic |-> 0],
                          [name |-> "artist", dynamic |-> 0],
                          [name |-> "time", dynamic |-> 1] >>]
      [] name = "A_FULLSCREEN" ->
           [thumb |-> TRUE, prog |-> FALSE, fields |-> << >>]
      [] OTHER ->
           [thumb |-> TRUE, prog |-> TRUE,
            fields |-> << [name |-> "time", dynamic |-> 1] >>]

\* V_LAYOUT of the settings file.
VIDEO_LAYOUT_OF(name) ==
    CASE name = "V_DEFAULT" ->
           [thumb |-> TRUE, prog |-> TRUE,
            fields |-> << [name |-> "title", dynamic |-> 0],
                          [name |-> "time", dynamic |-> 1] >>]
      [] name = "V_TV_SHOW" ->
           [thumb |-> TRUE, prog |-> TRUE,
            fields |-> << [name |-> "tvshow", dynamic |-> 0],
                          [name |-> "episode", dynamic |-> 0],
                          [name |-> "title", dynamic |-> 0],
                          [name |-> "time", dynamic |-> 1] >>]
      [] OTHER ->
           [thumb |-> FALSE, prog |-> TRUE,
            fields |-> << [name |-> "title", dynamic |-> 0],
                          [name |-> "time", dynamic |-> 1] >>]

\* S_LAYOUT and STATUS_LAYOUT of the settings file: the slideshow layouts
\* have a background fill, the status layout has none.
SLIDESHOW_LAYOUT(name) ==
    [background |-> TRUE, fields |-> << [name |-> "filename", dynamic |-> 0] >>]

STATUS_LAYOUT ==
    [background |-> FALSE,
     fields |-> << [name |-> "summary", dynamic |-> 0],
                   [name |-> "systime", dynamic |-> 1] >>]

IsEmpty(name, v) == IF name \in {"time", "duration"} THEN v = <<>> ELSE v = ""

\* draw_fields(): the fields of the layout drawn in this pass, in order.
\* STATUS and SLIDE draw every field; AUDIO and VIDEO draw the fields whose
\* dynamic flag matches the pass.  A field with an empty value is skipped.
\* The gate of draw_fields() on the static and the dynamic pass: whether the
\* field is passed over in this invocation.
PassSkips_StaticDrawsAll(field_dict, screen_mode, dynamic) ==
    IF screen_mode \in {"STATUS", "SLIDE"} THEN FALSE
    ELSE IF dynamic = 1 THEN field_dict.dynamic = 0
         ELSE FALSE

PassSkips(field_dict, screen_mode, dynamic) ==
    IF screen_mode \in {"STATUS", "SLIDE"} THEN FALSE
    ELSE IF dynamic = 1 THEN field_dict.dynamic = 0
         ELSE field_dict.dynamic # 0

RECURSIVE DrawList(_, _, _, _)
DrawList(field_list, info, screen_mode, dynamic) ==
    IF field_list = <<>> THEN <<>>
    ELSE LET field_dict == Head(field_list)
             rest == DrawList(Tail(field_list), info, screen_mode, dynamic)
             skip == PassSkips(field_dict, screen_mode, dynamic)
         IN  IF skip \/ IsEmpty(field_dict.name, info[field_dict.name])
             THEN rest
             ELSE << [name |-> field_dict.name,
                      text |-> info[field_dict.name]] >> \o rest

draw_fields(layout, info, screen_mode, layout_name, dynamic) ==
    [kind |-> "fields", layout |-> layout_name,
     drawn |-> DrawList(layout.fields, info, screen_mode, dynamic)]

\* get_artwork(..., use_defaults=True): the cover named by the path, the
\* default image when the path is empty.
get_artwork(cover_path) ==
    IF cover_path # "" THEN [kind |-> "art", of |-> cover_path]
    ELSE [kind |-> "art", of |-> "default"]

\* audio_screen_static() and video_screen_static(): a new image with the
\* cover art and all static fields; _last_thumb is set on the way.
static_thumb(layout, info) ==
    IF layout.thumb THEN get_artwork(info.cover) ELSE None

audio_screen_static(layout, info, layout_name) ==
    [kind |-> "static", mode |-> "AUDIO",
     thumb |-> static_thumb(layout, info),
     fields |-> draw_fields(layout, info, "AUDIO", layout_name, 0)]

video_screen_static(layout, info, layout_name) ==
    [kind |-> "static", mode |-> "VIDEO",
     thumb |-> static_thumb(layout, info),
     fields |-> draw_fields(layout, info, "VIDEO", layout_name, 0)]

\* audio_screen_dynamic() and video_screen_dynamic(): the dynamic fields and
\* the progress bar, the bar only when the layout has one and prog is not -1.
screen_dynamic(layout, info, screen_mode, layout_name, prog) ==
    [kind |-> "dynamic",
     fields |-> draw_fields(layout, info, screen_mode, layout_name, 1),
     bar |-> IF prog.num = -1 \/ ~layout.prog THEN None
             ELSE [kind |-> "bar", prog |-> prog,
                   use_long_len |-> (Len(info.time) = 3)]]

\* image.paste(_static_image, (0, 0)), then the dynamic pass over it.
Paste(static, layer) == [base |-> static, over |-> << layer >>]

\* Drawing over what the frame holds.
Over(frame, layer) == [base |-> frame.base, over |-> Append(frame.over, layer)]

(***************************************************************************)
(* State.                                                                  *)
(***************************************************************************)

VARIABLES
    cfg,              \* the settings read at import, fixed afterwards
    now,              \* datetime.now(), in seconds
    _kodi_connected, _kodi_playing, _screen_active, _screen_offtime,
    _screen_press,    \* threading.Event: set or clear
    _lock,            \* threading.Lock: locked or not (it has no owner)
    _static_image, _static_video,
    _last_track,      \* _last_track_num, _title, _album, _time
    _last_video,      \* _last_video_title, _episode, _time
    _last_thumb,
    audio_dmode, video_dmode, slide_dmode,
    image,            \* the frame buffer drawn into
    displayed,        \* the frame last given to device.display()
    backlight,        \* the last of screen_on() / screen_off()
    mainpc,           \* where main() is
    touchpc,          \* where the touch interrupt thread is
    obs,              \* what the last update_display() call did
    hist,             \* the screen mode and fingerprint of the last render
    art,              \* the artwork memory: lru_cache of get_artwork(),
                      \* _last_image_time, and the last resolution made
    call              \* the last call of a helper function and its result

vars == << cfg, now, _kodi_connected, _kodi_playing, _screen_active,
           _screen_offtime, _screen_press, _lock, _static_image, _static_video,
           _last_track, _last_video, _last_thumb, audio_dmode, video_dmode,
           slide_dmode, image, displayed, backlight, mainpc, touchpc, obs, hist,
           art, call >>

\* What is recorded of an update_display() call: the branch taken, the
\* renderer run, whether the static image was rebuilt, whether a press was
\* consumed, whether the glitch test held, and the time the call read.
NoObs == [branch |-> "", render |-> "", rebuilt |-> FALSE, press |-> FALSE,
          glitch |-> FALSE, t0 |-> 0, players |-> ""]

\* The globals update_display() reads and writes, as one record; exc is the
\* exception the call ends with ("" when it returns).
Globals ==
    [ _kodi_connected |-> _kodi_connected, _kodi_playing |-> _kodi_playing,
      _screen_active |-> _screen_active, _screen_offtime |-> _screen_offtime,
      _screen_press |-> _screen_press,
      _static_image |-> _static_image, _static_video |-> _static_video,
      _last_track |-> _last_track, _last_video |-> _last_video,
      _last_thumb |-> _last_thumb,
      audio_dmode |-> audio_dmode, video_dmode |-> video_dmode,
      slide_dmode |-> slide_dmode,
      image |-> image, displayed |-> displayed, backlight |-> backlight,
      exc |-> "",
      info |-> None,
      obs |-> NoObs ]

screen_on(s) == [s EXCEPT !.backlight = "on"]

screen_off(s) == [s EXCEPT !.backlight = "off"]

Raise(s, e) == [s EXCEPT !.exc = e]

\* device.display(image) at the end of update_display().
Display(s) == [s EXCEPT !.displayed = s.image]

(***************************************************************************)
(* audio_screens() and video_screens().                                    *)
(***************************************************************************)

audio_select_default(s, info) == s.audio_dmode

AudioFingerprint(info) ==
    [num |-> info.track, title |-> info.title, album |-> info.album,
     time |-> info.duration]

\* The test of audio_screens() for reusing _static_image.
AudioStaticValid_NoAlbum(s, info) ==
    /\ s._static_image # None
    /\ ~s._static_video
    /\ info.track = s._last_track.num
    /\ info.title = s._last_track.title
    /\ info.duration = s._last_track.time

AudioStaticValid(s, info) ==
    /\ s._static_image # None
    /\ ~s._static_video
    /\ info.track = s._last_track.num
    /\ info.title = s._last_track.title
    /\ info.album = s._last_track.album
    /\ info.duration = s._last_track.time

audio_screens(s, info) ==
    LET dmode == IF cfg.AUDIO_LAYOUT_AUTOSELECT
                 THEN audio_select_default(s, info) ELSE s.audio_dmode
        layout == AUDIO_LAYOUT(dmode)
        prog == calc_progress(info.time, info.duration)
        s1 == [s EXCEPT !.audio_dmode = dmode]
        s2 == IF AudioStaticValid(s1, info) THEN s1
              ELSE [s1 EXCEPT
                      !._last_thumb = static_thumb(layout, info),
                      !._static_image = audio_screen_static(layout, info, dmode),
                      !._static_video = FALSE,
                      !._last_track = AudioFingerprint(info),
                      !.obs.rebuilt = TRUE]
    IN  [s2 EXCEPT
           !.image = Paste(s2._static_image,
                           screen_dynamic(layout, info, "AUDIO", dmode, prog)),
           !.obs.render = "audio_screens"]

\* video_select_default(): the layout picked from the InfoLabels.
video_select_default(info) ==
    IF StartsWith(info.path, "pvr://recordings") /\ "V_PVR" \in VIDEO_LAYOUT
    THEN "V_PVR"
    ELSE IF StartsWith(info.path, "pvr://channels") /\ "V_LIVETV" \in VIDEO_LAYOUT
    THEN "V_LIVETV"
    ELSE IF info.tvshow # "" /\ "V_TV_SHOW" \in VIDEO_LAYOUT
    THEN "V_TV_SHOW"
    ELSE IF info.origtitle # "" /\ "V_MOVIE" \in VIDEO_LAYOUT
    THEN "V_MOVIE"
    ELSE VLAYOUT_INITIAL

VideoFingerprint(info) ==
    [title |-> info.title, episode |-> info.episode, time |-> info.duration]

\* The test of video_screens() for reusing _static_image.
VideoStaticValid(s, info) ==
    /\ s._static_image # None
    /\ s._static_video
    /\ info.title = s._last_video.title
    /\ info.episode = s._last_video.episode
    /\ info.duration = s._last_video.time

video_screens(s, info) ==
    LET dmode == IF cfg.VIDEO_LAYOUT_AUTOSELECT
                 THEN video_select_default(info) ELSE s.video_dmode
        layout == VIDEO_LAYOUT_OF(dmode)
        prog == calc_progress(info.time, info.duration)
        s1 == [s EXCEPT !.video_dmode = dmode]
        s2 == IF VideoStaticValid(s1, info) THEN s1
              ELSE [s1 EXCEPT
                      !._last_thumb = static_thumb(layout, info),
                      !._static_image = video_screen_static(layout, info, dmode),
                      !._static_video = TRUE,
                      !._last_video = VideoFingerprint(info),
                      !.obs.rebuilt = TRUE]
    IN  [s2 EXCEPT
           !.image = Paste(s2._static_image,
                           screen_dynamic(layout, info, "VIDEO", dmode, prog)),
           !.obs.render = "video_screens"]

\* slideshow_screens(): SLIDESHOW_SELECT_FUNC is None, so the layout is
\* slide_dmode; the background fill, then every field.
slideshow_screens(s, info) ==
    LET layout == SLIDESHOW_LAYOUT(s.slide_dmode)
        fields == draw_fields(layout, info, "SLIDE", s.slide_dmode, 0)
    IN  [s EXCEPT
           !.image = IF layout.background
                     THEN [base |-> [kind |-> "fill", layout |-> s.slide_dmode],
                           over |-> << fields >>]
                     ELSE Over(s.image, fields),
           !.obs.render = "slideshow_screens"]

\* status_screen(): STATUS_SELECT_FUNC is None, so the one STATUS_LAYOUT.
status_screen(s, kodi_status) ==
    LET fields == draw_fields(STATUS_LAYOUT, kodi_status, "STATUS",
                              "STATUS_LAYOUT", 0)
    IN  [s EXCEPT
           !.image = IF STATUS_LAYOUT.background
                     THEN [base |-> [kind |-> "fill", layout |-> "STATUS_LAYOUT"],
                           over |-> << fields >>]
                     ELSE Over(s.image, fields),
           !.obs.render = "status_screen"]

(***************************************************************************)
(* update_display().                                                       *)
(***************************************************************************)

\* The branch the Player.GetActivePlayers response selects.
Branch(players) ==
    IF \/ players \in {"noresult", "none"}
       \/ (players = "picture" /\ ~cfg.SLIDESHOW_ENABLED)
       \/ (players = "video" /\ ~cfg.VIDEO_ENABLED)
       \/ (players = "audio" /\ ~cfg.AUDIO_ENABLED)
    THEN "status"
    ELSE IF players = "video" /\ cfg.VIDEO_ENABLED THEN "video"
    ELSE IF players = "audio" /\ cfg.AUDIO_ENABLED THEN "audio"
    ELSE IF players = "picture" /\ cfg.SLIDESHOW_ENABLED THEN "picture"
    ELSE "none"

\* The start of update_display(): a blank slate when there is no static
\* image, then the expiry of the wake time.
ScreenExpired_After(s, t) == s._screen_active /\ t > s._screen_offtime

\* The wake time has run out: _screen_active and now >= _screen_offtime.
ScreenExpired(s, t) == s._screen_active /\ t >= s._screen_offtime

TopOfUpdate(s, t) ==
    LET s1 == IF ~(s._kodi_connected /\ s._static_image # None)
              THEN [s EXCEPT !.image = Black] ELSE s
    IN  IF ~cfg.IDLE_STATUS_ENABLED /\ ScreenExpired(s1, t)
        THEN LET s2 == [s1 EXCEPT !._screen_active = FALSE]
             IN  IF ~s2._kodi_playing THEN screen_off(s2) ELSE s2
        ELSE s1

Summary(players) ==
    CASE players = "none" -> "Idle"
      [] players = "video" -> "Video playing"
      [] players = "picture" -> "Photo viewing"
      [] players = "audio" -> "Audio playing"

\* Nothing is playing, or something for which no screen is enabled.
WakeOnPress_KeepOfftime(s, t) ==
    [s EXCEPT !._screen_press = FALSE,
              !._screen_active = TRUE,
              !.obs.press = TRUE]

\* A press when idle: the status screen is active for _screen_wake seconds.
WakeOnPress(s, t) ==
    [s EXCEPT !._screen_press = FALSE,
              !._screen_active = TRUE,
              !._screen_offtime = t + SCREEN_WAKE_TIME,
              !.obs.press = TRUE]

StatusPath(s, touched, t, players, info) ==
    LET s1 == [s EXCEPT
                 !._kodi_playing = FALSE,
                 !.image = IF s._static_image # None /\ cfg.IDLE_STATUS_ENABLED
                           THEN Black ELSE @,
                 !._last_thumb = None,
                 !._static_image = None]
        s2 == IF s1._screen_press \/ touched THEN WakeOnPress(s1, t) ELSE s1
    IN  IF (s2._screen_active \/ cfg.IDLE_STATUS_ENABLED) /\ cfg.STATUS_ENABLED
        THEN IF players = "noresult" THEN Raise(s2, "KeyError")
             ELSE IF info = ConnErr THEN Raise(s2, "ConnectionError")
             ELSE IF info = Malformed THEN Raise(s2, "UnboundLocalError")
             ELSE screen_on(status_screen(s2,
                     [summary |-> Summary(players), systime |-> info.systime]))
        ELSE screen_off(s2)

VideoGlitch(info) ==
    /\ info.time = <<0, 0>> \/ info.time = <<0, 0, 0>>
    /\ info.duration = <<>>
    /\ info.cover = ""

VideoPath_CycleAlways(s, touched, info) ==
    LET s1 == [s EXCEPT !._kodi_playing = TRUE]
        s2 == IF s1._screen_press \/ touched
              THEN LET c == [s1 EXCEPT !._screen_press = FALSE, !.obs.press = TRUE]
                   IN  IF TRUE
                       THEN [c EXCEPT
                               !.video_dmode = LayoutNext(VLAYOUT_NAMES, @),
                               !._last_thumb = None,
                               !._static_image = None]
                       ELSE c
              ELSE s1
    IN  IF info = ConnErr THEN Raise(s2, "ConnectionError")
        ELSE IF info = Malformed THEN Raise(s2, "KeyError")
        ELSE IF VideoGlitch(info) THEN [s2 EXCEPT !.obs.glitch = TRUE]
        ELSE screen_on(video_screens([s2 EXCEPT !.info = info], info))

VideoPath(s, touched, info) ==
    LET s1 == [s EXCEPT !._kodi_playing = TRUE]
        s2 == IF s1._screen_press \/ touched
              THEN LET c == [s1 EXCEPT !._screen_press = FALSE, !.obs.press = TRUE]
                   IN  IF ~cfg.VIDEO_LAYOUT_AUTOSELECT
                       THEN [c EXCEPT
                               !.video_dmode = LayoutNext(VLAYOUT_NAMES, @),
                               !._last_thumb = None,
                               !._static_image = None]
                       ELSE c
              ELSE s1
    IN  IF info = ConnErr THEN Raise(s2, "ConnectionError")
        ELSE IF info = Malformed THEN Raise(s2, "KeyError")
        ELSE IF VideoGlitch(info) THEN [s2 EXCEPT !.obs.glitch = TRUE]
        ELSE screen_on(video_screens([s2 EXCEPT !.info = info], info))

AudioGlitch(info) ==
    \/ /\ info.time = <<0, 0>> \/ info.time = <<0, 0, 0>>
       /\ info.duration = <<>>
       /\ info.cover = ""
    \/ /\ StartsWith(info.path, "pipe://")
       /\ info.title = "AirPlay" \/ info.title = ""

AudioPath(s, touched, info) ==
    LET s1 == [s EXCEPT !._kodi_playing = TRUE]
        s2 == IF s1._screen_press \/ touched
              THEN LET c == [s1 EXCEPT !._screen_press = FALSE, !.obs.press = TRUE]
                   IN  IF ~cfg.AUDIO_LAYOUT_AUTOSELECT
                       THEN [c EXCEPT
                               !.audio_dmode = LayoutNext(ALAYOUT_NAMES, @),
                               !._last_thumb = None,
                               !._static_image = None]
                       ELSE c
              ELSE s1
    IN  IF info = ConnErr THEN Raise(s2, "ConnectionError")
        ELSE IF info = Malformed THEN Raise(s2, "KeyError")
        ELSE IF AudioGlitch(info) THEN [s2 EXCEPT !.obs.glitch = TRUE]
        ELSE screen_on(audio_screens([s2 EXCEPT !.info = info], info))

\* slide_dmode is assigned in update_display() without being declared
\* global there: reading it for .next() raises UnboundLocalError.
SlidePath(s, touched, info) ==
    LET s1 == [s EXCEPT !._kodi_playing = TRUE]
        pressed == s1._screen_press \/ touched
        s2 == IF pressed
              THEN [s1 EXCEPT !._screen_press = FALSE, !.obs.press = TRUE]
              ELSE s1
    IN  IF pressed /\ ~cfg.SLIDESHOW_LAYOUT_AUTOSELECT
        THEN Raise(s2, "UnboundLocalError")
        ELSE IF info = ConnErr THEN Raise(s2, "ConnectionError")
        ELSE IF info = Malformed THEN Raise(s2, "KeyError")
        ELSE screen_on(slideshow_screens([s2 EXCEPT !.info = info], info))

\* update_display(touched), from after _lock.acquire() to before
\* _lock.release(): t is datetime.now() (the call reads it twice, within
\* the same second), players the Player.GetActivePlayers response, info the
\* response to the InfoLabels request of the branch.
update_display(s, touched, t, players, info) ==
    LET sA == TopOfUpdate([s EXCEPT !.obs = [NoObs EXCEPT !.t0 = t]], t)
        b == Branch(players)
        sB == [sA EXCEPT !.obs.branch = b, !.obs.players = players]
        sC == CASE b = "status" -> StatusPath(sB, touched, t, players, info)
                [] b = "video" -> VideoPath(sB, touched, info)
                [] b = "audio" -> AudioPath(sB, touched, info)
                [] b = "picture" -> SlidePath(sB, touched, info)
                [] OTHER -> sB
    IN  IF players = "ConnectionError"
        THEN Raise([sA EXCEPT !.obs.branch = "failed"], "ConnectionError")
        ELSE IF sC.exc # "" THEN sC
        ELSE Display(sC)

(***************************************************************************)
(* The artwork memory and the helper functions called on their own.        *)
(***************************************************************************)

\* Cover references: library paths that need Files.PrepareDownload, a URL
\* fetched as it is, Kodi's default cover names, and the AirPlay temp file.
AIRPLAY_COVER == "special://temp/airtunes_album_thumb.jpg"

ArtCovers == {"", "c1", "c2", "http://h/c3.jpg", "DefaultVideoCover.png",
              AIRPLAY_COVER}

\* _airtunes_re.match(cover_path)
airtunes_match(cover_path) == cover_path = AIRPLAY_COVER

IsDefaultCover(cover_path) ==
    cover_path \in {"DefaultVideoCover.png", "DefaultAlbumCover.png"}

IsUrl(cover_path) == cover_path = "http://h/c3.jpg"

\* What the requests can come to: Files.PrepareDownload answers with a path
\* or without one, the GET answers 200 with an image, 200 with bytes that
\* are no image, or another status, Files.GetFileDetails answers with a
\* lastmodified time or without one; each of them can fail to connect.
PrepareOutcomes == {"path", "nopath", "ConnectionError"}

GetOutcomes == {"200", "undecodable", "404", "ConnectionError"}

DetailsOutcomes == {"t1", "t2", "nodetails", "ConnectionError"}

\* What is recorded of the last artwork resolution: the function and its
\* arguments, whether the lru_cache answered, the requests made
\* (Files.GetFileDetails, Files.PrepareDownload, GET of the image), the
\* exception raised ("" when it returned) and the image returned; then
\*   again      an earlier call with the same arguments returned, and
\*   before     the images such calls returned
\*   time_same  lastmodified is the time remembered in _last_image_time
\*   via        "audio_screens" when the resolution was made by a tick
\*   cover_same the tick has the cover reference of the tick before
\*   fresh      ... a different one, not in the lru_cache
NoResolution ==
    [fn |-> "", cover_path |-> "", use_defaults |-> FALSE, hit |-> FALSE,
     details |-> 0, prepare |-> 0, get |-> 0, exc |-> "", result |-> None,
     again |-> FALSE, before |-> {}, time_same |-> FALSE,
     via |-> "", cover_same |-> FALSE, fresh |-> FALSE]

\* lru_cache empty, _last_image_time None, nothing resolved yet.
\* returned: the calls of get_artwork() that returned, with their images.
ArtInit == [memo |-> {}, _last_image_time |-> None, last |-> NoResolution,
            returned |-> {}, cover_prev |-> None]

Art(cover_path) == [kind |-> "art", of |-> cover_path]

\* The body of get_artwork(): thumb_width, thumb_height and enlarge are
\* those of the one layout in use.  requests.get(None), after an answer of
\* Files.PrepareDownload without a path, raises MissingSchema.
get_artwork_body(cover_path, use_defaults, prep, get) ==
    LET fetch == /\ cover_path # "" /\ ~IsDefaultCover(cover_path)
                 /\ ~airtunes_match(cover_path)
        r0 == [NoResolution EXCEPT !.fn = "get_artwork",
                                   !.cover_path = cover_path,
                                   !.use_defaults = use_defaults]
        r1 == IF fetch /\ ~IsUrl(cover_path) THEN [r0 EXCEPT !.prepare = 1] ELSE r0
        default == IF ~use_defaults THEN None
                   ELSE IF cover_path = "DefaultVideoCover.png"
                        THEN Art("default_video") ELSE Art("default")
    IN  IF ~fetch THEN [r1 EXCEPT !.result = default]
        ELSE IF r1.prepare = 1 /\ prep = "ConnectionError"
             THEN [r1 EXCEPT !.exc = "ConnectionError"]
        ELSE IF r1.prepare = 1 /\ prep = "nopath"
             THEN [r1 EXCEPT !.exc = "MissingSchema"]
        ELSE IF get = "ConnectionError"
             THEN [r1 EXCEPT !.get = 1, !.exc = "ConnectionError"]
        ELSE IF get = "200"
             THEN [r1 EXCEPT !.get = 1, !.result = Art(cover_path)]
        ELSE [r1 EXCEPT !.get = 1, !.result = default]

MemoKey(cover_path, use_defaults) ==
    [cover_path |-> cover_path, use_defaults |-> use_defaults]

lru_get_artwork_nocache(a, cover_path, use_defaults, prep, get) ==
    [a EXCEPT !.last = get_artwork_body(cover_path, use_defaults, prep, get)]

\* get_artwork() under @lru_cache(maxsize=18): a call whose arguments are in
\* the cache returns the cached image and runs nothing; a call that returns
\* is cached, a call that raises is not.  The covers of the model are fewer
\* than maxsize: nothing is evicted.
lru_get_artwork(a, cover_path, use_defaults, prep, get) ==
    LET key == MemoKey(cover_path, use_defaults)
        cached == {e \in a.memo : e.key = key}
        r == get_artwork_body(cover_path, use_defaults, prep, get)
    IN  IF cached # {}
        THEN [a EXCEPT !.last = [NoResolution EXCEPT
                                   !.fn = "get_artwork",
                                   !.cover_path = cover_path,
                                   !.use_defaults = use_defaults,
                                   !.hit = TRUE,
                                   !.result = (CHOOSE e \in cached : TRUE).image]]
        ELSE [a EXCEPT !.last = r,
                       !.memo = IF r.exc = "" THEN @ \cup {[key |-> key, image |-> r.result]}
                                ELSE @]

\* response['result']['filedetails']['lastmodified'], None without it.
LastModified(details) ==
    IF details \in {"t1", "t2"} THEN [kind |-> "time", at |-> details] ELSE None

\* get_airplay_art() with Kodi on another host (_local_kodi False) and no
\* copy of the AirPlay temp file on this one.
get_airplay_art(a, cover_path, prev_image, details, prep, get) ==
    LET new_image_time == LastModified(details)
        r0 == [NoResolution EXCEPT
                 !.fn = "get_airplay_art", !.cover_path = cover_path,
                 !.details = 1,
                 !.time_same = (new_image_time # None
                                /\ new_image_time = a._last_image_time)]
        default == Art("default_airplay")
    IN  IF details = "ConnectionError"
        THEN [a EXCEPT !.last = [r0 EXCEPT !.exc = "ConnectionError"]]
        ELSE IF prev_image = None
                \/ (new_image_time # None /\ new_image_time # a._last_image_time)
        THEN LET r1 == [r0 EXCEPT !.prepare = 1]
             IN  IF prep = "ConnectionError"
                 THEN [a EXCEPT !.last = [r1 EXCEPT !.exc = "ConnectionError"]]
                 ELSE IF prep = "nopath"
                 THEN [a EXCEPT !.last = [r1 EXCEPT !.exc = "MissingSchema"]]
                 ELSE IF get = "ConnectionError"
                 THEN [a EXCEPT !.last = [r1 EXCEPT !.get = 1,
                                                    !.exc = "ConnectionError"]]
                 ELSE IF get = "200"
                 THEN [a EXCEPT !._last_image_time = new_image_time,
                                !.last = [r1 EXCEPT
                                            !.get = 1,
                                            !.result = [kind |-> "art",
                                                        of |-> cover_path,
                                                        at |-> new_image_time]]]
                 ELSE [a EXCEPT !.last = [r1 EXCEPT !.get = 1, !.result = default]]
        ELSE [a EXCEPT !.last = [r0 EXCEPT !.result = prev_image]]

\* No helper function called yet.
NoCall == [fn |-> ""]

(***************************************************************************)
(* Settings, initial state and the steps of main() and touch_callback().   *)
(***************************************************************************)

\* The settings the model is run with: which screens are enabled, which
\* layouts are auto-selected, and whether the touch interrupt calls
\* update_display() itself.
Configs ==
    { c \in [AUDIO_ENABLED : BOOLEAN, VIDEO_ENABLED : BOOLEAN,
             SLIDESHOW_ENABLED : BOOLEAN, STATUS_ENABLED : BOOLEAN,
             IDLE_STATUS_ENABLED : BOOLEAN,
             AUDIO_LAYOUT_AUTOSELECT : BOOLEAN,
             VIDEO_LAYOUT_AUTOSELECT : BOOLEAN,
             SLIDESHOW_LAYOUT_AUTOSELECT : BOOLEAN,
             TOUCH_CALL_UPDATE : BOOLEAN] :
        /\ c.AUDIO_LAYOUT_AUTOSELECT => c.AUDIO_ENABLED
        /\ c.VIDEO_LAYOUT_AUTOSELECT => c.VIDEO_ENABLED
        /\ c.SLIDESHOW_LAYOUT_AUTOSELECT => c.SLIDESHOW_ENABLED
        /\ c.IDLE_STATUS_ENABLED => c.STATUS_ENABLED }

Init ==
    /\ cfg \in Configs
    /\ now = 0
    /\ _kodi_connected = FALSE
    /\ _kodi_playing = FALSE
    /\ _screen_active = FALSE
    /\ _screen_offtime = 0
    /\ _screen_press = FALSE
    /\ _lock = FALSE
    /\ _static_image = None
    /\ _static_video = FALSE
    /\ _last_track = None
    /\ _last_video = None
    /\ _last_thumb = None
    /\ audio_dmode = ALAYOUT_INITIAL
    /\ video_dmode = VLAYOUT_INITIAL
    /\ slide_dmode = SLAYOUT_INITIAL
    /\ image = Black
    /\ displayed = None
    /\ backlight = "unset"
    /\ mainpc = "start"
    /\ touchpc = "idle"
    /\ obs = [ branch |-> "", render |-> "", rebuilt |-> FALSE, press |-> FALSE,
                glitch |-> FALSE, t0 |-> 0, players |-> "", exc |-> "",
                same_frame |-> FALSE, consecutive |-> FALSE, fp_same |-> FALSE,
                transparent |-> TRUE, layout_ok |-> TRUE, advanced |-> FALSE,
                had_static |-> FALSE, pending |-> FALSE, awake |-> FALSE,
                expired |-> FALSE,
                backlight |-> "unset" ]
    /\ hist = [mode |-> "", fp |-> None]
    /\ art = ArtInit
    /\ call = NoCall

\* The globals after a step that ran update_display().
SetGlobals(r) ==
    /\ _kodi_connected' = r._kodi_connected
    /\ _kodi_playing' = r._kodi_playing
    /\ _screen_active' = r._screen_active
    /\ _screen_offtime' = r._screen_offtime
    /\ _screen_press' = r._screen_press
    /\ _static_image' = r._static_image
    /\ _static_video' = r._static_video
    /\ _last_track' = r._last_track
    /\ _last_video' = r._last_video
    /\ _last_thumb' = r._last_thumb
    /\ audio_dmode' = r.audio_dmode
    /\ video_dmode' = r.video_dmode
    /\ slide_dmode' = r.slide_dmode
    /\ image' = r.image
    /\ displayed' = r.displayed
    /\ backlight' = r.backlight

\* The frame a call would compose if it rendered the static layer anew
\* from the snapshot it was given, in the layout it used.
UncachedFrame(r) ==
    IF r.obs.render = "audio_screens"
    THEN LET layout == AUDIO_LAYOUT(r.audio_dmode)
         IN  Paste(audio_screen_static(layout, r.info, r.audio_dmode),
                   screen_dynamic(layout, r.info, "AUDIO", r.audio_dmode,
                                  calc_progress(r.info.time, r.info.duration)))
    ELSE LET layout == VIDEO_LAYOUT_OF(r.video_dmode)
         IN  Paste(video_screen_static(layout, r.info, r.video_dmode),
                   screen_dynamic(layout, r.info, "VIDEO", r.video_dmode,
                                  calc_progress(r.info.time, r.info.duration)))

\* The layout an audio or video render ran with.
RenderLayout(r) ==
    IF r.obs.render = "audio_screens" THEN r.audio_dmode ELSE r.video_dmode

\* The fingerprint of the snapshot an audio or video render was given.
RenderFingerprint(r) ==
    IF r.obs.render = "audio_screens" THEN AudioFingerprint(r.info)
    ELSE VideoFingerprint(r.info)

RenderMode(r) == IF r.obs.render = "audio_screens" THEN "AUDIO" ELSE "VIDEO"

\* Whether the layout of the branch the call took is what LayoutEnum.next()
\* gives for the layout before the call.
Advanced(r) ==
    CASE r.obs.branch = "audio" ->
           r.audio_dmode = LayoutNext(ALAYOUT_NAMES, audio_dmode)
      [] r.obs.branch = "video" ->
           r.video_dmode = LayoutNext(VLAYOUT_NAMES, video_dmode)
      [] r.obs.branch = "picture" ->
           r.slide_dmode = LayoutNext(SLAYOUT_NAMES, slide_dmode)
      [] OTHER -> FALSE

\* The record of the call, with what an observer of the call can add:
\*   exc          the exception the call ended with, "" when it returned
\*   same_frame   the frame displayed is the one displayed before the call
\*   consecutive  the render follows a render of the same screen mode, with
\*                no press and no other branch in between
\*   fp_same      ... and the two snapshots have the same fingerprint
\*   transparent  the frame composed is the one an uncached render gives
\*   layout_ok    the static image pasted was rendered in the screen mode
\*                and layout in use
\*   advanced     the layout of the branch is the next one in order
\*   had_static   there was a static image when the call started
\*   pending      the press event is still set when the call ends
\*   awake        the call started with _screen_active, before _screen_offtime
\*   expired      the call started with _screen_active, at or after it
\*   backlight    the backlight when the call ends
Observed(r) ==
    LET rendered == r.obs.render \in {"audio_screens", "video_screens"}
        consecutive == rendered /\ hist.mode = RenderMode(r)
    IN  [ branch |-> r.obs.branch, render |-> r.obs.render,
          rebuilt |-> r.obs.rebuilt, press |-> r.obs.press,
          glitch |-> r.obs.glitch, t0 |-> r.obs.t0,
          players |-> r.obs.players,
          exc |-> r.exc,
          same_frame |-> (r.exc = "" /\ r.displayed = displayed),
          consecutive |-> consecutive,
          fp_same |-> (consecutive /\ hist.fp = RenderFingerprint(r)),
          transparent |-> (rendered => r.image = UncachedFrame(r)),
          layout_ok |-> (rendered =>
                           /\ r._static_image.mode = RenderMode(r)
                           /\ r._static_image.fields.layout = RenderLayout(r)),
          advanced |-> Advanced(r),
          had_static |-> (_static_image # None),
          pending |-> r._screen_press,
          awake |-> (_screen_active /\ r.obs.t0 < _screen_offtime),
          expired |-> (_screen_active /\ r.obs.t0 >= _screen_offtime),
          backlight |-> r.backlight ]

\* The screen mode that has been rendered without a press or another
\* branch in between, and the fingerprint of its last render.
NextHist(r) ==
    IF r.obs.render \in {"audio_screens", "video_screens"}
    THEN [mode |-> RenderMode(r), fp |-> RenderFingerprint(r)]
    ELSE IF r.obs.press THEN [mode |-> "", fp |-> None]
    ELSE IF r.obs.branch = "audio" /\ hist.mode = "AUDIO" THEN hist
    ELSE IF r.obs.branch = "video" /\ hist.mode = "VIDEO" THEN hist
    ELSE IF r.obs.branch = "failed" THEN hist
    ELSE [mode |-> "", fp |-> None]

\* The responses to the InfoLabels request of a branch.  With one playing
\* screen enabled the snapshots are all of its variations; with several
\* enabled, the base snapshot, its variation in the time and the glitch.
Several ==
    Cardinality({m \in {"AUDIO_ENABLED", "VIDEO_ENABLED", "SLIDESHOW_ENABLED"} :
                   cfg[m]}) > 1

AudioBasic ==
    { A0, [A0 EXCEPT !.time = <<0, 0>>],
      [A0 EXCEPT !.time = <<0, 0>>, !.duration = <<>>, !.cover = ""] }

VideoBasic ==
    { V0, [V0 EXCEPT !.time = <<0, 0, 0>>], [V0 EXCEPT !.tvshow = "Show"],
      [V0 EXCEPT !.time = <<0, 0, 0>>, !.duration = <<>>, !.cover = ""] }

InfoResponses(b) ==
    {ConnErr, Malformed} \cup
        CASE b = "audio" -> IF Several THEN AudioBasic ELSE AudioInfos
          [] b = "video" -> IF Several THEN VideoBasic ELSE VideoInfos
          [] b = "picture" -> SlideInfos
          [] OTHER -> StatusInfos

\* main(): the top of the outer loop, the waiting screen.
MainWaiting ==
    /\ mainpc = "start"
    /\ backlight' = "on"
    /\ image' = WaitingScreen
    /\ displayed' = WaitingScreen
    /\ mainpc' = "ping"
    /\ UNCHANGED << art, call, cfg, now, _kodi_connected, _kodi_playing, _screen_active,
                    _screen_offtime, _screen_press, _lock, _static_image,
                    _static_video, _last_track, _last_video, _last_thumb,
                    audio_dmode, video_dmode, slide_dmode, touchpc, obs, hist >>

\* The ping loop without the _screen_press.clear() that follows 'pong'.
MainPing_KeepPress(outcome) ==
    /\ mainpc = "ping"
    /\ CASE outcome = "pong" ->
              /\ backlight' = "off"
              /\ _kodi_connected' = TRUE
              /\ UNCHANGED _screen_press
              /\ mainpc' = "top"
              /\ UNCHANGED _lock
         [] outcome = "ConnectionError" ->
              /\ _lock' = FALSE
              /\ UNCHANGED << backlight, _kodi_connected, _screen_press, mainpc >>
         [] OTHER ->
              UNCHANGED << backlight, _kodi_connected, _screen_press, mainpc, _lock >>
    /\ UNCHANGED << art, call, cfg, now, _kodi_playing, _screen_active, _screen_offtime,
                    _static_image, _static_video, _last_track, _last_video,
                    _last_thumb, audio_dmode, video_dmode, slide_dmode, image,
                    displayed, touchpc, obs, hist >>

\* main(): one JSONRPC.Ping.  A ConnectionError releases the lock when it
\* is locked; 'pong' ends the loop, anything else sleeps and tries again.
MainPing(outcome) ==
    /\ mainpc = "ping"
    /\ CASE outcome = "pong" ->
              /\ backlight' = "off"
              /\ _kodi_connected' = TRUE
              /\ _screen_press' = FALSE
              /\ mainpc' = "top"
              /\ UNCHANGED _lock
         [] outcome = "ConnectionError" ->
              /\ _lock' = FALSE
              /\ UNCHANGED << backlight, _kodi_connected, _screen_press, mainpc >>
         [] OTHER ->
              UNCHANGED << backlight, _kodi_connected, _screen_press, mainpc, _lock >>
    /\ UNCHANGED << art, call, cfg, now, _kodi_playing, _screen_active, _screen_offtime,
                    _static_image, _static_video, _last_track, _last_video,
                    _last_thumb, audio_dmode, video_dmode, slide_dmode, image,
                    displayed, touchpc, obs, hist >>

\* main(): update_display() is called and takes the lock.
MainAcquire ==
    /\ mainpc = "top"
    /\ ~_lock
    /\ _lock' = TRUE
    /\ mainpc' = "cs"
    /\ UNCHANGED << art, call, cfg, now, _kodi_connected, _kodi_playing, _screen_active,
                    _screen_offtime, _screen_press, _static_image,
                    _static_video, _last_track, _last_video, _last_thumb,
                    audio_dmode, video_dmode, slide_dmode, image, displayed,
                    backlight, touchpc, obs, hist >>

\* main(): the body of update_display(), its _lock.release(), and the
\* handlers of main() for what it raises.  Releasing a lock that is not
\* locked raises RuntimeError.
MainHandle(r) ==
    IF r.exc = "" /\ _lock
    THEN /\ SetGlobals(r) /\ _lock' = FALSE /\ mainpc' = "top"
    ELSE IF r.exc = "ConnectionError"
    THEN /\ SetGlobals([r EXCEPT !._kodi_connected = FALSE,
                                 !._kodi_playing = FALSE,
                                 !._screen_press = FALSE])
         /\ _lock' = FALSE
         /\ mainpc' = "start"
    ELSE /\ SetGlobals(r) /\ _lock' = FALSE /\ mainpc' = "exited"

MainUpdate(players, info) ==
    /\ mainpc = "cs"
    /\ LET r == update_display(Globals, FALSE, now, players, info)
       IN  /\ MainHandle(r)
           /\ obs' = Observed(r)
           /\ hist' = NextHist(r)
    /\ UNCHANGED << art, call, cfg, now, touchpc >>

\* touch_callback(): when connected, either calls update_display(True) or
\* sets the press event.
TouchCallback ==
    /\ touchpc = "idle"
    /\ _kodi_connected
    /\ IF cfg.TOUCH_CALL_UPDATE
       THEN touchpc' = "acquire" /\ UNCHANGED _screen_press
       ELSE _screen_press' = TRUE /\ UNCHANGED touchpc
    /\ UNCHANGED << art, call, cfg, now, _kodi_connected, _kodi_playing, _screen_active,
                    _screen_offtime, _lock, _static_image, _static_video,
                    _last_track, _last_video, _last_thumb, audio_dmode,
                    video_dmode, slide_dmode, image, displayed, backlight,
                    mainpc, obs, hist >>

TouchAcquire ==
    /\ touchpc = "acquire"
    /\ ~_lock
    /\ _lock' = TRUE
    /\ touchpc' = "cs"
    /\ UNCHANGED << art, call, cfg, now, _kodi_connected, _kodi_playing, _screen_active,
                    _screen_offtime, _screen_press, _static_image,
                    _static_video, _last_track, _last_video, _last_thumb,
                    audio_dmode, video_dmode, slide_dmode, image, displayed,
                    backlight, mainpc, obs, hist >>

\* The touch thread: the body of update_display(True) and its release.
\* Nothing handles what it raises: the callback ends and the lock stays as
\* it is.
TouchUpdate(players, info) ==
    /\ touchpc = "cs"
    /\ LET r == update_display(Globals, TRUE, now, players, info)
       IN  /\ SetGlobals(r)
           /\ _lock' = IF r.exc = "" THEN FALSE ELSE _lock
           /\ obs' = Observed(r)
           /\ hist' = NextHist(r)
    /\ touchpc' = "idle"
    /\ UNCHANGED << art, call, cfg, now, mainpc >>

\* Time passes: a sleep, the wait between ticks, a slow response.
AdvanceTime ==
    /\ now < MaxTime
    /\ now' = now + 1
    /\ UNCHANGED << art, call, cfg, _kodi_connected, _kodi_playing, _screen_active,
                    _screen_offtime, _screen_press, _lock, _static_image,
                    _static_video, _last_track, _last_video, _last_thumb,
                    audio_dmode, video_dmode, slide_dmode, image, displayed,
                    backlight, mainpc, touchpc, obs, hist >>

(***************************************************************************)
(* The specification of the screen modes and the static-image cache: every *)
(* player response and telemetry snapshot, presses through the press       *)
(* event, the clock standing still.                                        *)
(***************************************************************************)

AllOn == [AUDIO_ENABLED |-> TRUE, VIDEO_ENABLED |-> TRUE,
          SLIDESHOW_ENABLED |-> TRUE, STATUS_ENABLED |-> TRUE,
          IDLE_STATUS_ENABLED |-> FALSE,
          AUDIO_LAYOUT_AUTOSELECT |-> FALSE,
          VIDEO_LAYOUT_AUTOSELECT |-> FALSE,
          SLIDESHOW_LAYOUT_AUTOSELECT |-> FALSE,
          TOUCH_CALL_UPDATE |-> FALSE]

Only(mode, auto) ==
    [AllOn EXCEPT !.AUDIO_ENABLED = (mode = "AUDIO"),
                  !.VIDEO_ENABLED = (mode = "VIDEO"),
                  !.SLIDESHOW_ENABLED = (mode = "SLIDE"),
                  !.AUDIO_LAYOUT_AUTOSELECT = (mode = "AUDIO" /\ auto),
                  !.VIDEO_LAYOUT_AUTOSELECT = (mode = "VIDEO" /\ auto),
                  !.SLIDESHOW_LAYOUT_AUTOSELECT = (mode = "SLIDE" /\ auto)]

\* One playing screen enabled, cycled by presses or auto-selected; all of
\* them enabled; the status screen always shown, or never.
ModeConfigs ==
    { Only(mode, auto) : mode \in {"AUDIO", "VIDEO", "SLIDE"}, auto \in BOOLEAN }
    \cup { AllOn,
           [AllOn EXCEPT !.AUDIO_LAYOUT_AUTOSELECT = TRUE,
                         !.VIDEO_LAYOUT_AUTOSELECT = TRUE,
                         !.SLIDESHOW_LAYOUT_AUTOSELECT = TRUE],
           [Only("AUDIO", FALSE) EXCEPT !.IDLE_STATUS_ENABLED = TRUE],
           [Only("VIDEO", TRUE) EXCEPT !.STATUS_ENABLED = FALSE] }

Players == PlayerResponses \cup {"ConnectionError"}

Next ==
    \/ MainWaiting
    \/ \E outcome \in {"pong", "notpong", "ConnectionError"} : MainPing(outcome)
    \/ MainAcquire
    \/ \E players \in Players :
         \E info \in InfoResponses(Branch(players)) : MainUpdate(players, info)
    \/ TouchCallback

InitModes == Init /\ cfg \in ModeConfigs

Spec == InitModes /\ [][Next]_vars

(***************************************************************************)
(* The static-image cache.                                                 *)
(***************************************************************************)

\* The fingerprint the program has stored for the screen mode last rendered.
StoredFingerprint == IF hist.mode = "AUDIO" THEN _last_track ELSE _last_video

\* C1: when audio_screens() (video_screens()) runs after a run of the same
\* function with no press and no other screen mode in between, the static
\* image is reused (not rebuilt) if the two snapshots agree on the
\* fingerprint fields and rebuilt if they differ, and after it the stored
\* fingerprint is that of the snapshot just rendered.
C1_FingerprintGatesStatic ==
    (obs.consecutive /\ ~obs.press) =>
        /\ obs.rebuilt <=> ~obs.fp_same
        /\ StoredFingerprint = hist.fp

\* Reached: a second render with an unchanged fingerprint reused the image.
C1_Witness ==
    /\ obs.render = "audio_screens" /\ obs.consecutive /\ ~obs.press
    /\ obs.fp_same /\ ~obs.rebuilt

\* C2: whenever a tick pastes the static image, that image was rendered in
\* the screen mode and the layout active in the tick.
C2_StaticMatchesLayout == obs.layout_ok

\* C3: the frame composed from the cached static image and the dynamic pass
\* is the frame a render of the static layer from the current snapshot
\* would give.
C3_CacheTransparent == obs.transparent

\* C4: a tick of a playing mode without auto-selection that finds a press
\* pending and gets its telemetry returns normally, with the layout advanced
\* to the next one, the static image and last thumbnail invalidated (None,
\* or rebuilt by the render that follows) and the press event clear.
ManualBranch ==
    \/ obs.branch = "audio" /\ ~cfg.AUDIO_LAYOUT_AUTOSELECT
    \/ obs.branch = "video" /\ ~cfg.VIDEO_LAYOUT_AUTOSELECT
    \/ obs.branch = "picture" /\ ~cfg.SLIDESHOW_LAYOUT_AUTOSELECT

C4_PressCyclesLayout ==
    (obs.press /\ ManualBranch /\ obs.exc \notin {"ConnectionError", "KeyError"}) =>
        /\ obs.exc = ""
        /\ obs.advanced
        /\ obs.rebuilt \/ (_static_image = None /\ _last_thumb = None)
        /\ ~obs.pending

\* C5: a tick whose active-player response is empty, or names a player type
\* that is not enabled or is none of audio, video and picture, takes the
\* status path: _kodi_playing False, no playing-media renderer, the static
\* image and the last thumbnail None, no press left pending.
Unsupported(players) ==
    \/ players \in {"none", "other"}
    \/ players = "audio" /\ ~cfg.AUDIO_ENABLED
    \/ players = "video" /\ ~cfg.VIDEO_ENABLED
    \/ players = "picture" /\ ~cfg.SLIDESHOW_ENABLED

C5_UnsupportedIsStatus ==
    Unsupported(obs.players) =>
        /\ obs.branch = "status"
        /\ ~_kodi_playing
        /\ obs.render \in {"", "status_screen"}
        /\ _static_image = None /\ _last_thumb = None
        /\ ~obs.pending

\* C8: on a glitch tick no renderer runs and the frame given to the display
\* is the frame given to it on the tick before.
C8_GlitchKeepsFrame ==
    obs.glitch => (obs.render = "" /\ obs.same_frame)

(***************************************************************************)
(* The specification of the wake time of the status screen: one playing    *)
(* mode, the clock running, presses through the press event.               *)
(***************************************************************************)

WakeConfigs ==
    { Only("AUDIO", FALSE),
      [Only("AUDIO", FALSE) EXCEPT !.IDLE_STATUS_ENABLED = TRUE],
      [Only("AUDIO", FALSE) EXCEPT !.STATUS_ENABLED = FALSE] }

BasicResponses(b) ==
    {ConnErr, Malformed} \cup
        CASE b = "audio" -> AudioBasic
          [] b = "video" -> VideoBasic
          [] b = "picture" -> SlideInfos
          [] OTHER -> StatusInfos

\* Nothing playing, audio playing, or no answer; one snapshot of each.
WakeResponses(b) ==
    {ConnErr} \cup (IF b = "audio" THEN {A0} ELSE StatusInfos)

WakeTick ==
    \E players \in {"none", "audio", "ConnectionError"} :
        \E info \in WakeResponses(Branch(players)) : MainUpdate(players, info)

NextWake ==
    \/ MainWaiting
    \/ \E outcome \in {"pong", "notpong", "ConnectionError"} : MainPing(outcome)
    \/ MainAcquire
    \/ WakeTick
    \/ TouchCallback
    \/ AdvanceTime

InitWake == Init /\ cfg \in WakeConfigs

SpecWake == InitWake /\ [][NextWake]_vars

\* C6: a press consumed on an idle tick at time t leaves _screen_active set
\* and _screen_offtime = t + SCREEN_WAKE_TIME (every press, so a further
\* press restarts the whole duration); an idle tick that starts with the
\* screen active and before _screen_offtime renders the status screen and
\* turns the backlight on, when STATUS_ENABLED and the status arrives.
C6_PressWakes ==
    /\ (obs.branch = "status" /\ obs.press) =>
           /\ _screen_active
           /\ _screen_offtime = obs.t0 + SCREEN_WAKE_TIME
    /\ (obs.branch = "status" /\ obs.awake /\ cfg.STATUS_ENABLED /\ obs.exc = "") =>
           /\ obs.render = "status_screen"
           /\ obs.backlight = "on"

\* Reached: after a wake at an earlier time, an idle tick without a press
\* that starts before _screen_offtime has rendered the status screen.
C6_Witness ==
    /\ ~cfg.IDLE_STATUS_ENABLED /\ cfg.STATUS_ENABLED
    /\ obs.branch = "status" /\ obs.awake /\ ~obs.press
    /\ obs.t0 > 0 /\ obs.render = "status_screen" /\ obs.backlight = "on"

\* The status screen shown on a press only.  The loops of main() keep
\* running and the clock keeps advancing.
ExpiryConfigs == { Only("AUDIO", FALSE) }

InitExpiry == Init /\ cfg \in ExpiryConfigs

SpecExpiry ==
    /\ InitExpiry /\ [][NextWake]_vars
    /\ WF_vars(MainWaiting) /\ WF_vars(MainPing("pong"))
    /\ WF_vars(MainAcquire) /\ WF_vars(WakeTick) /\ WF_vars(AdvanceTime)

\* Without IDLE_STATUS_ENABLED: no tick leaves _screen_active set when it
\* started at or after _screen_offtime, unless a press at that tick has
\* moved _screen_offtime ahead of it.
ActiveOnlyBeforeOfftime ==
    (~cfg.IDLE_STATUS_ENABLED /\ _screen_active) => obs.t0 < _screen_offtime

\* Without IDLE_STATUS_ENABLED: an idle tick that ends with _screen_active
\* False renders no status screen and calls screen_off().
InactiveIdleIsDark ==
    (~cfg.IDLE_STATUS_ENABLED /\ obs.branch = "status" /\ ~_screen_active) =>
        (obs.render = "" /\ obs.backlight = "off")

\* The clock of the model can reach the end of the wake time.
OfftimeInReach == _screen_offtime <= MaxTime

ThreadConfigs == { [Only("AUDIO", FALSE) EXCEPT !.TOUCH_CALL_UPDATE = TRUE] }

MainTick ==
    \E players \in Players :
        \E info \in BasicResponses(Branch(players)) : MainUpdate(players, info)

NextThreads ==
    \/ MainWaiting
    \/ \E outcome \in {"pong", "notpong", "ConnectionError"} : MainPing(outcome)
    \/ MainAcquire
    \/ MainTick
    \/ TouchCallback
    \/ TouchAcquire
    \/ \E players \in Players :
         \E info \in BasicResponses(Branch(players)) : TouchUpdate(players, info)

InitThreads == Init /\ cfg \in ThreadConfigs

SpecThreads == InitThreads /\ [][NextThreads]_vars

\* C9: the main thread and the touch thread are never both between
\* _lock.acquire() and _lock.release() of update_display().
C9_MutualExclusion == ~(mainpc = "cs" /\ touchpc = "cs")

\* C10: the main thread is never left waiting in _lock.acquire() for a lock
\* that no thread is going to release.
C10_MainNeverStuck == (mainpc = "top" /\ _lock) => touchpc = "cs"

(***************************************************************************)
(* Disconnection and reconnection.                                         *)
(***************************************************************************)

\* The tick of the main loop ended with a communication error: the transport
\* failed (ConnectionError), or a response lacked what the code reads from
\* it (KeyError; UnboundLocalError of status_dict on the status path).
CommFailure ==
    \/ obs.exc = "ConnectionError"
    \/ obs.exc = "KeyError"
    \/ obs.exc = "UnboundLocalError" /\ obs.branch = "status"

\* C11: after a tick that failed with a communication error the process has
\* not exited, and until a ping answers 'pong' the session is disconnected:
\* _kodi_connected and _kodi_playing False, the press event clear, and
\* main() not in its update loop.
C11_CommErrorDisconnects ==
    CommFailure =>
        /\ mainpc # "exited"
        /\ mainpc \in {"start", "ping"} =>
              (~_kodi_connected /\ ~_kodi_playing /\ ~_screen_press)

\* main() is back in its update loop after a tick that ended in a
\* ConnectionError, and has not completed a tick since.
Reconnected == obs.exc = "ConnectionError" /\ mainpc \in {"top", "cs"}

\* C12: between a communication error and the first tick of the next
\* session the static image and the last-thumbnail memory are None.
C12_CachesResetOnReconnect ==
    Reconnected => (_static_image = None /\ _last_thumb = None)

\* C13: while main() polls with JSONRPC.Ping (the session is disconnected)
\* the frame last given to the display is the "Waiting to connect with
\* Kodi..." screen.
C13_WaitingScreenWhileDisconnected ==
    mainpc = "ping" => displayed = WaitingScreen

(***************************************************************************)
(* The specification of the artwork functions called on their own:         *)
(* get_artwork() through its lru_cache and get_airplay_art(), with every   *)
(* outcome of their requests.                                              *)
(***************************************************************************)

\* The calls explored fill the lru_cache with at most MaxMemo entries.
MaxMemo == 2

\* get_artwork(cover_path, w, h, use_defaults, enlarge), as its callers
\* call it: through the lru_cache.
GetArtworkCall ==
    \E cover_path \in ArtCovers, use_defaults \in BOOLEAN,
       prep \in PrepareOutcomes, get \in GetOutcomes :
        LET key == MemoKey(cover_path, use_defaults)
            seen == {e \in art.returned : e.key = key}
            a == lru_get_artwork(art, cover_path, use_defaults, prep, get)
        IN  /\ seen # {} \/ Cardinality(art.returned) < MaxMemo
            /\ art' = [a EXCEPT
                         !.last.again = (seen # {}),
                         !.last.before = {e.image : e \in seen},
                         !.returned = IF a.last.exc = ""
                                      THEN @ \cup {[key |-> key, image |-> a.last.result]}
                                      ELSE @]
            /\ UNCHANGED << call, cfg, now, _kodi_connected, _kodi_playing,
                            _screen_active, _screen_offtime, _screen_press,
                            _lock, _static_image, _static_video, _last_track,
                            _last_video, _last_thumb, audio_dmode, video_dmode,
                            slide_dmode, image, displayed, backlight, mainpc,
                            touchpc, obs, hist >>

\* get_airplay_art(cover_path, prev_image, w, h, enlarge) for the AirPlay
\* cover, prev_image None or the image the call before returned.
GetAirplayArtCall ==
    \E prev_image \in {None} \cup
                      {art.last.result : x \in {y \in {art.last} :
                                                  /\ y.fn = "get_airplay_art"
                                                  /\ y.exc = ""}},
       details \in DetailsOutcomes, prep \in PrepareOutcomes,
       get \in GetOutcomes :
        /\ art' = get_airplay_art(art, AIRPLAY_COVER, prev_image, details, prep, get)
        /\ UNCHANGED << call, cfg, now, _kodi_connected, _kodi_playing,
                        _screen_active, _screen_offtime, _screen_press,
                        _lock, _static_image, _static_video, _last_track,
                        _last_video, _last_thumb, audio_dmode, video_dmode,
                        slide_dmode, image, displayed, backlight, mainpc,
                        touchpc, obs, hist >>

NextArt == GetArtworkCall \/ GetAirplayArtCall

InitArt == Init /\ cfg = AllOn

SpecArt == InitArt /\ [][NextArt]_vars

\* C14: get_artwork() with use_defaults and get_airplay_art() never raise:
\* whatever the requests come to, they return an image.
C14_ArtworkNeverRaises ==
    (art.last.fn = "get_airplay_art"
       \/ (art.last.fn = "get_artwork" /\ art.last.use_defaults)) =>
        (art.last.exc = "" /\ art.last.result # None)

\* C15: a call of get_artwork() with the arguments of an earlier call that
\* returned gives the image that call returned and makes no
\* Files.PrepareDownload request and no GET.
C15_GetArtworkMemoized ==
    (art.last.fn = "get_artwork" /\ art.last.again) =>
        /\ art.last.before = {art.last.result}
        /\ art.last.prepare = 0 /\ art.last.get = 0

\* Reached: a second call for a library cover that was fetched before.
C15_Witness ==
    /\ art.last.fn = "get_artwork" /\ art.last.again
    /\ art.last.cover_path = "c1" /\ art.last.result = Art("c1")

(***************************************************************************)
(* The specification of the artwork of the audio screens: audio_screens()  *)
(* called tick after tick on snapshots that differ in cover and title,     *)
(* with every outcome of the requests of the artwork functions.            *)
(***************************************************************************)

AirPlay1 == [A0 EXCEPT !.path = "pipe://11/", !.title = "Air 1",
                       !.cover = AIRPLAY_COVER]

\* The base snapshot, its cover or title or both changed, and two AirPlay
\* tracks with the one AirPlay cover reference.
TickInfos ==
    { A0, [A0 EXCEPT !.cover = "c2"], [A0 EXCEPT !.title = "Song B"],
      [A0 EXCEPT !.title = "Song B", !.cover = "c2"],
      AirPlay1, [AirPlay1 EXCEPT !.title = "Air 2"] }

\* The artwork resolution of audio_screens(): none when the static image is
\* kept or the layout has no thumb; else _last_thumb is set to None and
\* audio_screen_static() calls get_airplay_art(cover, _last_thumb, ...) for
\* an AirPlay cover, get_artwork(cover, ..., use_defaults=True) otherwise.
AudioArtwork(a, s, info, details, prep, get) ==
    IF AudioStaticValid(s, info) \/ ~AUDIO_LAYOUT(s.audio_dmode).thumb
    THEN [a EXCEPT !.last = [NoResolution EXCEPT !.cover_path = info.cover]]
    ELSE IF airtunes_match(info.cover)
    THEN get_airplay_art(a, info.cover, None, details, prep, get)
    ELSE lru_get_artwork(a, info.cover, TRUE, prep, get)

\* The static image with the image the resolution returned as its thumb.
WithThumb(r, thumb) ==
    IF r.obs.rebuilt /\ AUDIO_LAYOUT(r.audio_dmode).thumb
    THEN [r EXCEPT !._last_thumb = thumb,
                   !._static_image.thumb = thumb,
                   !.image.base.thumb = thumb]
    ELSE r

\* One tick with audio playing, from audio_screens() to device.display().
\* An exception of the artwork functions ends the tick after _last_thumb
\* was set to None; after MissingSchema the program has exited.
ArtTick ==
    \E info \in TickInfos, details \in DetailsOutcomes,
       prep \in PrepareOutcomes, get \in GetOutcomes :
        LET s == [Globals EXCEPT !.info = info]
            a == AudioArtwork(art, s, info, details, prep, get)
            this == [kind |-> "cover", path |-> info.cover]
            r == Display(WithThumb(audio_screens(s, info), a.last.result))
        IN  /\ art.last.exc # "MissingSchema"
            /\ art' = [a EXCEPT
                         !.last.via = "audio_screens",
                         !.last.cover_same = (art.cover_prev = this),
                         !.last.fresh =
                             /\ art.cover_prev \notin {None, this}
                             /\ \A e \in art.memo : e.key.cover_path # info.cover,
                         !.cover_prev = IF a.last.exc = "" THEN this ELSE None]
            /\ IF a.last.exc = ""
               THEN SetGlobals(r)
               ELSE /\ _last_thumb' = None
                    /\ UNCHANGED << _kodi_connected, _kodi_playing,
                                    _screen_active, _screen_offtime,
                                    _screen_press, _static_image, _static_video,
                                    _last_track, _last_video, audio_dmode,
                                    video_dmode, slide_dmode, image, displayed,
                                    backlight >>
            /\ UNCHANGED << call, cfg, now, _lock, mainpc, touchpc, obs, hist >>

InitArtTick == Init /\ cfg = Only("AUDIO", FALSE)

SpecArtTick == InitArtTick /\ [][ArtTick]_vars

\* A tick whose audio_screens() returned.
TickReturned == art.last.via = "audio_screens" /\ art.last.exc = ""

\* C16: of two consecutive playing ticks, the second makes no artwork
\* request when the cover reference is unchanged; when it changed to one
\* not in the cache the second makes one GET of the new image, and the
\* image fetched is the artwork of the frame.
C16_ArtworkFetchPerCoverChange ==
    TickReturned =>
        /\ art.last.cover_same =>
              (art.last.details = 0 /\ art.last.prepare = 0 /\ art.last.get = 0)
        /\ art.last.fresh =>
              /\ art.last.get = 1
              /\ art.last.result = Art(art.last.cover_path) =>
                    _static_image.thumb = art.last.result

\* C17: every resolution of the AirPlay cover asks for lastmodified; when
\* it is the time remembered from the last resolution no
\* Files.PrepareDownload request and no GET is made.
C17_AirplayTimestampGate ==
    (art.last.fn = "get_airplay_art" /\ art.last.exc = "") =>
        /\ art.last.details = 1
        /\ art.last.time_same => (art.last.prepare = 0 /\ art.last.get = 0)

(***************************************************************************)
(* The specification of layout selection: the main loop with presses,      *)
(* every playing mode cycled by presses or auto-selected, and snapshots    *)
(* that make video_select_default() choose each of its layouts.            *)
(***************************************************************************)

SelectConfigs ==
    { Only(mode, auto) : mode \in {"AUDIO", "VIDEO", "SLIDE"}, auto \in BOOLEAN }

SelectResponses(b) ==
    {ConnErr} \cup
        CASE b = "audio" -> AudioBasic \cup {[A0 EXCEPT !.title = "Song B"]}
          [] b = "video" -> VideoBasic \cup {[V0 EXCEPT !.path = "pvr://recordings/r"],
                                             [V0 EXCEPT !.title = "T2"]}
          [] b = "picture" -> SlideInfos
          [] OTHER -> StatusInfos

\* What an observer of one update_display() call knows of the layouts:
\*   variant       the layout of the screen the call rendered
\*   selected      AUDIO_SELECT_FUNC or VIDEO_SELECT_FUNC applied to the
\*                 snapshot of the call ("" when the call rendered neither)
\*   changed       the branches whose layout differs from before the call
\*   static_valid  the static image of before the call passes the reuse
\*                 test of the renderer on the snapshot of the call
Selection(r) ==
    [ fn |-> "update_display",
      variant |-> CASE r.obs.render = "audio_screens" -> r.audio_dmode
                    [] r.obs.render = "video_screens" -> r.video_dmode
                    [] OTHER -> "",
      selected |-> CASE r.obs.render = "audio_screens" ->
                          audio_select_default(Globals, r.info)
                     [] r.obs.render = "video_screens" ->
                          video_select_default(r.info)
                     [] OTHER -> "",
      changed |-> {b \in {"audio", "video", "picture"} :
                     CASE b = "audio" -> r.audio_dmode # audio_dmode
                       [] b = "video" -> r.video_dmode # video_dmode
                       [] OTHER -> r.slide_dmode # slide_dmode},
      static_valid |-> CASE r.obs.render = "audio_screens" ->
                              AudioStaticValid(Globals, r.info)
                         [] r.obs.render = "video_screens" ->
                              VideoStaticValid(Globals, r.info)
                         [] OTHER -> FALSE ]

\* The call of update_display() by the main loop, observed.
SelectUpdate(players, info) ==
    /\ mainpc = "cs"
    /\ LET r == update_display(Globals, FALSE, now, players, info)
       IN  /\ MainHandle(r)
           /\ obs' = Observed(r)
           /\ hist' = NextHist(r)
           /\ call' = Selection(r)
    /\ UNCHANGED << art, cfg, now, touchpc >>

SelectTick ==
    \E players \in {"none", "audio", "video", "picture"} :
        \E info \in SelectResponses(Branch(players)) : SelectUpdate(players, info)

NextSelect ==
    \/ MainWaiting
    \/ \E outcome \in {"pong", "ConnectionError"} : MainPing(outcome)
    \/ MainAcquire
    \/ SelectTick
    \/ TouchCallback

InitSelect == Init /\ cfg \in SelectConfigs

SpecSelect == InitSelect /\ [][NextSelect]_vars

AutoSelected(b) ==
    \/ b = "audio" /\ cfg.AUDIO_LAYOUT_AUTOSELECT
    \/ b = "video" /\ cfg.VIDEO_LAYOUT_AUTOSELECT
    \/ b = "picture" /\ cfg.SLIDESHOW_LAYOUT_AUTOSELECT

MaxLen == 3

Chars == {"0", "1", ":", "x"}

Digits == {"0", "1"}

\* The strings of at most MaxLen characters.
Strings == UNION { [1..n -> Chars] : n \in 0..MaxLen }

\* str.count(":")
count(str) == Cardinality({i \in 1..Len(str) : str[i] = ":"})

\* str.split(":"): the parts between the colons, empty parts included.
RECURSIVE split(_)
split(str) ==
    IF count(str) = 0 THEN << str >>
    ELSE LET i == CHOOSE k \in 1..Len(str) :
                      str[k] = ":" /\ \A j \in 1..(k - 1) : str[j] # ":"
         IN  << SubSeq(str, 1, i - 1) >> \o split(SubSeq(str, i + 1, Len(str)))

\* int(x) returns for a non-empty string of digits and raises ValueError
\* for any other string over Chars.
int_valid(x) == x # <<>> /\ \A i \in 1..Len(x) : x[i] \in Digits

RECURSIVE int(_)
int(x) ==
    IF x = <<>> THEN 0
    ELSE 10 * int(SubSeq(x, 1, Len(x) - 1))
           + (IF x[Len(x)] = "1" THEN 1 ELSE 0)

\* calc_progress(time_str, duration_str, layout_name): the result, or the
\* ValueError of an int() of a part.
calc_progress_str(time_str, duration_str) ==
    IF time_str = <<>> \/ duration_str = <<>>
    THEN [exc |-> "", num |-> -1, den |-> 1]
    ELSE IF ~(count(time_str) \in 1..2 /\ count(duration_str) \in 1..2)
    THEN [exc |-> "", num |-> -1, den |-> 1]
    ELSE LET t == split(time_str)
             d == split(duration_str)
         IN  IF \/ \E i \in 1..Len(t) : ~int_valid(t[i])
                \/ \E i \in 1..Len(d) : ~int_valid(d[i])
             THEN [exc |-> "ValueError", num |-> 0, den |-> 1]
             ELSE LET p == calc_progress([i \in 1..Len(t) |-> int(t[i])],
                                         [i \in 1..Len(d) |-> int(d[i])])
                  IN  [exc |-> "", num |-> p.num, den |-> p.den]

\* One call of calc_progress() on any two strings.
CalcProgressCall ==
    \E time_str \in Strings, duration_str \in Strings :
        /\ call = NoCall
        /\ call' = [fn |-> "calc_progress", time_str |-> time_str,
                    duration_str |-> duration_str,
                    result |-> calc_progress_str(time_str, duration_str)]
        /\ UNCHANGED << art, cfg, now, _kodi_connected, _kodi_playing,
                        _screen_active, _screen_offtime, _screen_press, _lock,
                        _static_image, _static_video, _last_track,
                        _last_video, _last_thumb, audio_dmode, video_dmode,
                        slide_dmode, image, displayed, backlight, mainpc,
                        touchpc, obs, hist >>

InitProgress == Init /\ cfg = AllOn

SpecProgress == InitProgress /\ [][CalcProgressCall]_vars

\* A string "[h:]m:s" of numbers, and the seconds it stands for.
Parsable(string) ==
    /\ count(string) \in 1..2
    /\ \A i \in 1..Len(split(string)) : int_valid(split(string)[i])

Seconds(string) == Secs([i \in 1..Len(split(string)) |-> int(split(string)[i])])

\* C19: calc_progress never raises; it returns -1 when the duration is
\* empty, unparsable or zero, 1 when current >= total > 0, and otherwise
\* current/total, a value strictly between 0 and 1.
C19_ProgressValue ==
    call.fn = "calc_progress" =>
        LET r == call.result
        IN  /\ r.exc = ""
            /\ IF ~Parsable(call.duration_str) \/ Seconds(call.duration_str) = 0
               THEN r.num = -1 /\ r.den = 1
               ELSE IF Parsable(call.time_str)
                       /\ Seconds(call.time_str) >= Seconds(call.duration_str)
               THEN r.num = 1 /\ r.den = 1
               ELSE /\ Parsable(call.time_str)
                    /\ r.num = Seconds(call.time_str)
                    /\ r.den = Seconds(call.duration_str)
                    /\ 0 < r.num /\ r.num < r.den

(***************************************************************************)
(* check_display_expr().  A dictionary is a function on the keys it can    *)
(* hold, Absent standing for a key that is not in it.  A value is a Python *)
(* bool or a Python str.                                                   *)
(***************************************************************************)

Absent == [kind |-> "absent"]

Bool(b) == [type |-> "bool", b |-> b]

Str(x) == [type |-> "str", s |-> x]

List(func_name, test_str) ==
    [type |-> "list", items |-> << func_name, test_str >>]

\* str(value)
str(value) ==
    IF value.type = "bool" THEN (IF value.b THEN "True" ELSE "False")
    ELSE value.s

\* str.lower(), on the strings of the model.
lower(x) ==
    CASE x \in {"true", "True", "TRUE"} -> "true"
      [] x \in {"false", "False", "FALSE"} -> "false"
      [] OTHER -> x

\* The InfoLabels and InfoBooleans of a snapshot; the booleans are missing
\* from it when the second response of the batch has no result.
InfoValues(key) ==
    IF key = "System.ScreenSaverActive"
    THEN {Absent, Bool(TRUE), Bool(FALSE), Str("true"), Str("True"),
          Str("TRUE"), Str("false"), Str(""), Str("1")}
    ELSE {Absent, Str("http://a"), Str("smb://m")}

Snapshots ==
    { info \in [{"System.ScreenSaverActive", "Player.Filenameandpath"} ->
                    InfoValues("System.ScreenSaverActive")
                        \cup InfoValues("Player.Filenameandpath")] :
        \A key \in DOMAIN info : info[key] \in InfoValues(key) }

In(key, dict) == key \in DOMAIN dict /\ dict[key] # Absent

\* strcb_upnp_playback(), the string callback of the model's STRING_CB.
strcb_upnp_playback(info) ==
    IF In("Player.Filenameandpath", info)
    THEN IF info["Player.Filenameandpath"].s = "http://a" THEN "1" ELSE "0"
    ELSE "0"

STRING_CB == {"upnp_playback"}

FuncNames == {"System.ScreenSaverActive", "upnp_playback", "System.Missing"}

TestStrings == {"true", "TRUE", "false", "1"}

\* The conditionals a layout element can carry: none, display_if or
\* display_ifnot with a two-element list, or display_if with a value that
\* is not a list, alone or beside a display_ifnot.
FieldDicts ==
    { [display_if |-> Absent, display_ifnot |-> Absent],
      [display_if |-> Str("x"), display_ifnot |-> Absent] }
    \cup { [display_if |-> List(f, t), display_ifnot |-> Absent] :
             f \in FuncNames, t \in TestStrings }
    \cup { [display_if |-> Absent, display_ifnot |-> List(f, t)] :
             f \in FuncNames, t \in TestStrings }
    \cup { [display_if |-> Str("x"), display_ifnot |-> List(f, t)] :
             f \in FuncNames, t \in TestStrings }

check_display_expr_unresolved(field_dict, info) ==
    LET use_if == In("display_if", field_dict)
                    /\ field_dict.display_if.type = "list"
        use_ifnot == ~use_if /\ In("display_ifnot", field_dict)
                       /\ field_dict.display_ifnot.type = "list"
        items == IF use_if THEN field_dict.display_if.items
                 ELSE field_dict.display_ifnot.items
        func_name == items[1]
        test_str == items[2]
        check_equal == ~use_ifnot
        result_str == IF In(func_name, info) THEN str(info[func_name])
                      ELSE strcb_upnp_playback(info)
    IN  IF ~In("display_if", field_dict) /\ ~In("display_ifnot", field_dict)
        THEN TRUE
        ELSE IF ~use_if /\ ~use_ifnot THEN TRUE
        ELSE IF ~In(func_name, info) /\ func_name \notin STRING_CB THEN ~check_equal
        ELSE IF lower(test_str) = "true" \/ lower(test_str) = "false"
        THEN IF check_equal THEN lower(result_str) = lower(test_str)
             ELSE lower(result_str) # lower(test_str)
        ELSE IF check_equal THEN result_str = test_str
             ELSE result_str # test_str

check_display_expr_exact(field_dict, info) ==
    LET use_if == In("display_if", field_dict)
                    /\ field_dict.display_if.type = "list"
        use_ifnot == ~use_if /\ In("display_ifnot", field_dict)
                       /\ field_dict.display_ifnot.type = "list"
        items == IF use_if THEN field_dict.display_if.items
                 ELSE field_dict.display_ifnot.items
        func_name == items[1]
        test_str == items[2]
        check_equal == ~use_ifnot
        result_str == IF In(func_name, info) THEN str(info[func_name])
                      ELSE strcb_upnp_playback(info)
    IN  IF ~In("display_if", field_dict) /\ ~In("display_ifnot", field_dict)
        THEN TRUE
        ELSE IF ~use_if /\ ~use_ifnot THEN TRUE
        ELSE IF ~In(func_name, info) /\ func_name \notin STRING_CB THEN FALSE
        ELSE IF FALSE
        THEN IF check_equal THEN lower(result_str) = lower(test_str)
             ELSE lower(result_str) # lower(test_str)
        ELSE IF check_equal THEN result_str = test_str
             ELSE result_str # test_str

check_display_expr(field_dict, info) ==
    LET use_if == In("display_if", field_dict)
                    /\ field_dict.display_if.type = "list"
        use_ifnot == ~use_if /\ In("display_ifnot", field_dict)
                       /\ field_dict.display_ifnot.type = "list"
        items == IF use_if THEN field_dict.display_if.items
                 ELSE field_dict.display_ifnot.items
        func_name == items[1]
        test_str == items[2]
        check_equal == ~use_ifnot
        result_str == IF In(func_name, info) THEN str(info[func_name])
                      ELSE strcb_upnp_playback(info)
    IN  IF ~In("display_if", field_dict) /\ ~In("display_ifnot", field_dict)
        THEN TRUE
        ELSE IF ~use_if /\ ~use_ifnot THEN TRUE
        ELSE IF ~In(func_name, info) /\ func_name \notin STRING_CB THEN FALSE
        ELSE IF lower(test_str) = "true" \/ lower(test_str) = "false"
        THEN IF check_equal THEN lower(result_str) = lower(test_str)
             ELSE lower(result_str) # lower(test_str)
        ELSE IF check_equal THEN result_str = test_str
             ELSE result_str # test_str

\* A field of draw_fields(), the thumb and the progress bar of the static
\* and dynamic screens: an element with a conditional goes on to be drawn
\* only when check_display_expr() returns True (the field has a non-empty
\* string, the thumb a size, and prog is not -1).
field_shown(field_dict, info) ==
    IF In("display_if", field_dict) \/ In("display_ifnot", field_dict)
    THEN check_display_expr(field_dict, info)
    ELSE TRUE

show_thumb(thumb_dict, info) ==
    IF In("display_if", thumb_dict) \/ In("display_ifnot", thumb_dict)
    THEN check_display_expr(thumb_dict, info)
    ELSE TRUE

show_prog(prog_dict, info) ==
    IF In("display_if", prog_dict) \/ In("display_ifnot", prog_dict)
    THEN check_display_expr(prog_dict, info)
    ELSE TRUE

\* The element with the same list under the other of the two keys.
Swapped(field_dict) ==
    [display_if |-> field_dict.display_ifnot,
     display_ifnot |-> field_dict.display_if]

\* One call of check_display_expr(), and the call on the swapped element
\* with the same snapshot.
CheckDisplayExprCall ==
    \E field_dict \in FieldDicts, info \in Snapshots :
        /\ call = NoCall
        /\ call' = [fn |-> "check_display_expr", field_dict |-> field_dict,
                    info |-> info,
                    result |-> check_display_expr(field_dict, info),
                    swapped |-> check_display_expr(Swapped(field_dict), info),
                    shown |-> [field |-> field_shown(field_dict, info),
                               thumb |-> show_thumb(field_dict, info),
                               prog |-> show_prog(field_dict, info)]]
        /\ UNCHANGED << art, cfg, now, _kodi_connected, _kodi_playing,
                        _screen_active, _screen_offtime, _screen_press, _lock,
                        _static_image, _static_video, _last_track,
                        _last_video, _last_thumb, audio_dmode, video_dmode,
                        slide_dmode, image, displayed, backlight, mainpc,
                        touchpc, obs, hist >>

InitDisplayExpr == Init /\ cfg = AllOn

SpecDisplayExpr == InitDisplayExpr /\ [][CheckDisplayExprCall]_vars

\* The stringified value of the source in the snapshot equals "true",
\* ignoring case; a source the snapshot does not hold has no such value.
ValueIsTrue(func_name, info) ==
    /\ func_name \in DOMAIN info
    /\ info[func_name] # Absent
    /\ str(info[func_name]) \in {"true", "True", "TRUE"}

\* C20: for the source System.ScreenSaverActive or any other InfoLabel name
\* S, an element with display_if = [S, "true"] is displayed iff the value
\* of S is "true" ignoring case, an element with display_ifnot = [S, "true"]
\* iff it is not, and so exactly one of the two is displayed, whatever the
\* snapshot.
C20_DisplayIfComplement ==
    call.fn = "check_display_expr" =>
        LET fd == call.field_dict
        IN  /\ (fd.display_ifnot = Absent /\ fd.display_if # Absent
                  /\ fd.display_if.type = "list"
                  /\ fd.display_if.items[2] = "true"
                  /\ fd.display_if.items[1] \notin STRING_CB) =>
                  /\ call.result <=> ValueIsTrue(fd.display_if.items[1], call.info)
                  /\ call.swapped <=> ~call.result
            /\ (fd.display_if = Absent /\ fd.display_ifnot # Absent
                  /\ fd.display_ifnot.items[2] = "true"
                  /\ fd.display_ifnot.items[1] \notin STRING_CB) =>
                  /\ call.result <=> ~ValueIsTrue(fd.display_ifnot.items[1], call.info)
                  /\ call.swapped <=> ~call.result

(***************************************************************************)
(* truncate_line().  A line is the sequence of its characters; a font      *)
(* gives every character a width in pixels, and getsize() of a text is the *)
(* sum of the widths of its characters.                                    *)
(***************************************************************************)

MaxLine == 5

MaxWidth == 24

Ellipsis == "u2026"

\* Two fonts: a narrow and a wide character, and the ellipsis.
Fonts ==
    { [name |-> "small", i |-> 2, W |-> 5, ellipsis |-> 4],
      [name |-> "large", i |-> 4, W |-> 10, ellipsis |-> 12] }

Lines == UNION { [1..n -> {"i", "W"}] : n \in 0..MaxLine }

CharWidth(font, c) ==
    CASE c = "i" -> font.i
      [] c = "W" -> font.W
      [] c = " " -> font.i
      [] OTHER -> font.ellipsis

\* font.getsize(text)[0]
RECURSIVE getsize(_, _)
getsize(font, text) ==
    IF text = <<>> THEN 0
    ELSE CharWidth(font, Head(text)) + getsize(font, Tail(text))

\* The naive truncation loop: characters are removed from the end while the
\* text is wider than avail_width.  The empty text has width 0 and removing
\* from it gives the empty text, so with avail_width < 0 the loop never ends.
RECURSIVE truncate_loop(_, _, _, _)
truncate_loop(font, new_text, avail_width, truncating) ==
    IF getsize(font, new_text) > avail_width
    THEN IF new_text = <<>>
         THEN [outcome |-> "hangs", text |-> <<>>, truncating |-> TRUE]
         ELSE truncate_loop(font, SubSeq(new_text, 1, Len(new_text) - 1),
                            avail_width, TRUE)
    ELSE [outcome |-> "returns", text |-> new_text, truncating |-> truncating]

\* truncate_line(line, font, max_width), for max_width >= 0.
truncate_line(line, font, max_width) ==
    LET t_width == getsize(font, line)
    IN  IF t_width <= max_width
        THEN [outcome |-> "returns", text |-> line]
        ELSE LET \* int(max_width / (len(line) / t_width)) + 4
                 num_chars == ((max_width * t_width) \div Len(line)) + 4
                 new_text == SubSeq(line, 1, IF num_chars < Len(line)
                                             THEN num_chars ELSE Len(line))
                 avail_width == max_width - getsize(font, << Ellipsis >>) + 6
                 l == truncate_loop(font, new_text, avail_width, FALSE)
             IN  [outcome |-> l.outcome,
                  text |-> IF l.truncating THEN l.text \o << Ellipsis >>
                           ELSE l.text]

\* One call of truncate_line().
TruncateLineCall ==
    \E line \in Lines, font \in Fonts, max_width \in 0..MaxWidth :
        /\ call = NoCall
        /\ call' = [fn |-> "truncate_line", line |-> line, font |-> font,
                    max_width |-> max_width,
                    result |-> truncate_line(line, font, max_width)]
        /\ UNCHANGED << art, cfg, now, _kodi_connected, _kodi_playing,
                        _screen_active, _screen_offtime, _screen_press, _lock,
                        _static_image, _static_video, _last_track,
                        _last_video, _last_thumb, audio_dmode, video_dmode,
                        slide_dmode, image, displayed, backlight, mainpc,
                        touchpc, obs, hist >>

InitTruncate == Init /\ cfg = AllOn

SpecTruncate == InitTruncate /\ [][TruncateLineCall]_vars

\* C21: truncate_line returns the line unchanged when it is not wider than
\* max_width; when it is wider, it returns a strict prefix of the line
\* followed by the ellipsis, and the whole is not wider than max_width.
C21_TruncateFits ==
    call.fn = "truncate_line" =>
        /\ call.result.outcome = "returns"
        /\ IF getsize(call.font, call.line) <= call.max_width
           THEN call.result.text = call.line
           ELSE /\ \E k \in 0..(Len(call.line) - 1) :
                     call.result.text = SubSeq(call.line, 1, k) \o << Ellipsis >>
                /\ getsize(call.font, call.result.text) <= call.max_width

(***************************************************************************)
(* Start-up: the module-level code that reads config.settings, up to the   *)
(* call of main().                                                         *)
(***************************************************************************)

\* A layout table of the setup file: absent, complete, or naming a font or
\* a color that the fonts table or the COLORS table does not hold.
Tables == {"absent", "ok", "bad_font", "bad_color"}

\* The setup files of the model.  The video and slideshow settings vary in
\* being enabled and in having their layout table; the audio settings also
\* in ALAYOUT_NAMES/ALAYOUT_INITIAL and in what the table refers to.
SettingsFiles ==
    [ fonts : {"absent", "no_font_main", "unloadable", "ok"},
      COLORS : {"absent", "ok"},
      ENABLE_AUDIO_SCREENS : BOOLEAN,
      ALAYOUT_NAMES : BOOLEAN,
      A_LAYOUT : Tables,
      ENABLE_VIDEO_SCREENS : BOOLEAN,
      V_LAYOUT : {"absent", "ok"},
      ENABLE_SLIDESHOW_SCREENS : BOOLEAN,
      S_LAYOUT : {"absent", "ok"},
      ENABLE_STATUS_SCREEN : BOOLEAN,
      STATUS_LAYOUT : Tables ]

\* fixup_layouts() of a table: _fonts[value] or _colors[value] of a name
\* that is not there raises KeyError.
fixup_layouts(table) ==
    IF table \in {"bad_font", "bad_color"} THEN "KeyError" ELSE ""

\* The module-level code: how it ends ("main" when main() is called), and
\* the screens enabled when it does.
startup(settings) ==
    LET AUDIO_NAMED == settings.ENABLE_AUDIO_SCREENS /\ settings.ALAYOUT_NAMES
        AUDIO_ON == AUDIO_NAMED /\ settings.A_LAYOUT # "absent"
        VIDEO_ON == settings.ENABLE_VIDEO_SCREENS /\ settings.V_LAYOUT # "absent"
        SLIDE_ON == settings.ENABLE_SLIDESHOW_SCREENS
                      /\ settings.S_LAYOUT # "absent"
        STATUS_ON == settings.ENABLE_STATUS_SCREEN
                       /\ settings.STATUS_LAYOUT # "absent"
        ends == IF settings.fonts = "absent" THEN "sys.exit"
                ELSE IF settings.fonts = "unloadable" THEN "sys.exit"
                ELSE IF settings.fonts = "no_font_main" THEN "sys.exit"
                ELSE IF settings.COLORS = "absent" THEN "sys.exit"
                ELSE IF AUDIO_ON /\ fixup_layouts(settings.A_LAYOUT) # ""
                THEN "KeyError"
                ELSE IF STATUS_ON /\ fixup_layouts(settings.STATUS_LAYOUT) # ""
                THEN "KeyError"
                ELSE "main"
    IN  [ ends |-> ends,
          AUDIO_ENABLED |-> ends = "main" /\ AUDIO_ON,
          VIDEO_ENABLED |-> ends = "main" /\ VIDEO_ON,
          SLIDESHOW_ENABLED |-> ends = "main" /\ SLIDE_ON,
          STATUS_ENABLED |-> ends = "main" /\ STATUS_ON ]

\* One start of the program with one setup file.
StartupCall ==
    \E settings \in SettingsFiles :
        /\ call = NoCall
        /\ call' = [fn |-> "startup", settings |-> settings,
                    result |-> startup(settings)]
        /\ UNCHANGED << art, cfg, now, _kodi_connected, _kodi_playing,
                        _screen_active, _screen_offtime, _screen_press, _lock,
                        _static_image, _static_video, _last_track,
                        _last_video, _last_thumb, audio_dmode, video_dmode,
                        slide_dmode, image, displayed, backlight, mainpc,
                        touchpc, obs, hist >>

InitStartup == Init /\ cfg = AllOn

SpecStartup == InitStartup /\ [][StartupCall]_vars

\* The rendering configuration is incomplete: no usable fonts table, no
\* COLORS table, an enabled screen without its layout table, or a layout
\* table of an enabled screen naming a font or color that is not defined.
Incomplete(settings) ==
    \/ settings.fonts # "ok"
    \/ settings.COLORS = "absent"
    \/ settings.ENABLE_AUDIO_SCREENS /\ settings.A_LAYOUT # "ok"
    \/ settings.ENABLE_VIDEO_SCREENS /\ settings.V_LAYOUT # "ok"
    \/ settings.ENABLE_SLIDESHOW_SCREENS /\ settings.S_LAYOUT # "ok"
    \/ settings.ENABLE_STATUS_SCREEN /\ settings.STATUS_LAYOUT # "ok"

\* C22: a start with an incomplete rendering configuration ends before
\* main() and its polling loop are entered.
C22_IncompleteConfigIsFatal ==
    (call.fn = "startup" /\ Incomplete(call.settings)) =>
        call.result.ends # "main"

\* C23: an update_display() call that returns leaves no press pending,
\* whatever Player.GetActivePlayers answered: the press it found set is
\* cleared by it, and acted on once (the wake of the status screen, or the
\* next layout of a mode cycled by presses).
C23_PressConsumedByTick ==
    (obs.players # "" /\ obs.exc = "") =>
        /\ ~obs.pending
        /\ (obs.press /\ obs.branch = "status") => _screen_active
        /\ (obs.press /\ ManualBranch) => obs.advanced

(***************************************************************************)
(* video_select_default() under every setup file: the keys of the V_LAYOUT *)
(* table and the members of VDisplay (VLAYOUT_NAMES) are set apart.        *)
(***************************************************************************)

VideoLayoutNames == {"V_DEFAULT", "V_PVR", "V_LIVETV", "V_TV_SHOW", "V_MOVIE"}

\* VDisplay[name]: the member, or KeyError for a name that VLAYOUT_NAMES
\* does not hold.
VDisplay(members, name) ==
    IF name \in members THEN [exc |-> "", variant |-> name]
    ELSE [exc |-> "KeyError", variant |-> ""]

\* VIDEO_SELECT_FUNC = video_select_default, with the V_LAYOUT keys, the
\* members of VDisplay and VLAYOUT_INITIAL of the setup file.
VIDEO_SELECT_FUNC(layouts, members, initial, info) ==
    IF StartsWith(info.path, "pvr://recordings") /\ "V_PVR" \in layouts
    THEN VDisplay(members, "V_PVR")
    ELSE IF StartsWith(info.path, "pvr://channels") /\ "V_LIVETV" \in layouts
    THEN VDisplay(members, "V_LIVETV")
    ELSE IF info.tvshow # "" /\ "V_TV_SHOW" \in layouts
    THEN VDisplay(members, "V_TV_SHOW")
    ELSE IF info.origtitle # "" /\ "V_MOVIE" \in layouts
    THEN VDisplay(members, "V_MOVIE")
    ELSE VDisplay(members, initial)

\* One call of video_select_default().  VLAYOUT_INITIAL is V_DEFAULT, a
\* member of VDisplay (start-up fails otherwise).
VideoSelectCall ==
    \E layouts \in SUBSET VideoLayoutNames,
       others \in SUBSET (VideoLayoutNames \ {"V_DEFAULT"}),
       path \in {"smb://m", "pvr://recordings/r", "pvr://channels/c"},
       tvshow \in {"", "Show"}, origtitle \in {"", "Orig"} :
        LET info == [V0 EXCEPT !.path = path, !.tvshow = tvshow,
                               !.origtitle = origtitle]
            members == others \cup {"V_DEFAULT"}
        IN  /\ call = NoCall
            /\ call' = [fn |-> "video_select_default", layouts |-> layouts,
                        members |-> members, info |-> info,
                        result |-> VIDEO_SELECT_FUNC(layouts, members,
                                                     "V_DEFAULT", info)]
            /\ UNCHANGED << art, cfg, now, _kodi_connected, _kodi_playing,
                            _screen_active, _screen_offtime, _screen_press,
                            _lock, _static_image, _static_video, _last_track,
                            _last_video, _last_thumb, audio_dmode, video_dmode,
                            slide_dmode, image, displayed, backlight, mainpc,
                            touchpc, obs, hist >>

InitVideoSelect == Init /\ cfg = AllOn

SpecVideoSelect == InitVideoSelect /\ [][VideoSelectCall]_vars

\* The variant the stated priority gives.
PriorityVariant(layouts, info) ==
    IF info.path = "pvr://recordings/r" /\ "V_PVR" \in layouts THEN "V_PVR"
    ELSE IF info.path = "pvr://channels/c" /\ "V_LIVETV" \in layouts
    THEN "V_LIVETV"
    ELSE IF info.tvshow # "" /\ "V_TV_SHOW" \in layouts THEN "V_TV_SHOW"
    ELSE IF info.origtitle # "" /\ "V_MOVIE" \in layouts THEN "V_MOVIE"
    ELSE "V_DEFAULT"

\* C24: video_select_default returns the variant of the stated priority
\* (V_PVR, V_LIVETV, V_TV_SHOW, V_MOVIE, each when it is a key of
\* VIDEO_LAYOUT, else the initial variant), and what it returns is a key of
\* VIDEO_LAYOUT.
C24_VideoSelectPriority ==
    call.fn = "video_select_default" =>
        /\ call.result.exc = ""
        /\ call.result.variant = PriorityVariant(call.layouts, call.info)
        /\ call.result.variant \in call.layouts

(***************************************************************************)
(* The passes of draw_fields() over a layout: the static and the dynamic   *)
(* pass of the audio and video screens, the one pass of the status and     *)
(* slideshow screens, for layouts with any dynamic flags.                  *)
(***************************************************************************)

\* The value of a field's "dynamic" key: 0 also stands for a field without
\* the key (field_dict.get("dynamic", 0)), 2 for any other true value.
DynamicFlags == {0, 1, 2}

PassFieldNames == << "title", "album", "time" >>

RECURSIVE FieldLists(_)
FieldLists(names) ==
    IF names = <<>> THEN { <<>> }
    ELSE LET rest == FieldLists(Tail(names))
         IN  rest \cup { << [name |-> Head(names), dynamic |-> d] >> \o r :
                           d \in DynamicFlags, r \in rest }

\* The layouts of the model: any of the three fields, in order, each with
\* any flag.
PassLayouts ==
    { [thumb |-> FALSE, prog |-> FALSE, background |-> FALSE, fields |-> f] :
        f \in FieldLists(PassFieldNames) }

Names(drawn) == { drawn[i].name : i \in 1..Len(drawn) }

\* The draw_fields() calls of one render of a screen: audio_screen_static()
\* and audio_screen_dynamic() (video likewise) pass dynamic=0 and dynamic=1;
\* status_screen() and slideshow_screens() make one call and pass nothing.
\* Every value of the snapshot is non-empty, so a field is drawn by a pass
\* exactly when the pass considers it.
DrawFieldsCall ==
    \E layout \in PassLayouts,
       screen_mode \in {"AUDIO", "VIDEO", "STATUS", "SLIDE"} :
        LET two == screen_mode \in {"AUDIO", "VIDEO"}
        IN  /\ call = NoCall
            /\ call' = [fn |-> "draw_fields", layout |-> layout,
                        screen_mode |-> screen_mode,
                        static |-> Names(draw_fields(layout, A0, screen_mode,
                                                     "L", 0).drawn),
                        dynamic |-> IF two
                                    THEN Names(draw_fields(layout, A0,
                                                 screen_mode, "L", 1).drawn)
                                    ELSE {}]
            /\ UNCHANGED << art, cfg, now, _kodi_connected, _kodi_playing,
                            _screen_active, _screen_offtime, _screen_press,
                            _lock, _static_image, _static_video, _last_track,
                            _last_video, _last_thumb, audio_dmode, video_dmode,
                            slide_dmode, image, displayed, backlight, mainpc,
                            touchpc, obs, hist >>

InitPasses == Init /\ cfg = AllOn

SpecPasses == InitPasses /\ [][DrawFieldsCall]_vars

\* C25: on an audio or video screen the dynamic pass considers exactly the
\* fields whose dynamic flag is set and the static pass exactly the others,
\* so every field is in one pass and in one only; on a status or slideshow
\* screen the single pass considers every field.
C25_FieldInOnePass ==
    call.fn = "draw_fields" =>
        LET fields == call.layout.fields
            all == { fields[i].name : i \in 1..Len(fields) }
            flagged == { fields[i].name :
                           i \in { j \in 1..Len(fields) : fields[j].dynamic # 0 } }
        IN  IF call.screen_mode \in {"AUDIO", "VIDEO"}
            THEN /\ call.dynamic = flagged
                 /\ call.static = all \ flagged
            ELSE call.static = all

\* A video layout with a static, a dynamic and a flag-2 field, split 1 : 2.
C25_Witness ==
    /\ call.fn = "draw_fields" /\ call.screen_mode = "VIDEO"
    /\ call.layout.fields = << [name |-> "title", dynamic |-> 0],
                               [name |-> "album", dynamic |-> 2],
                               [name |-> "time", dynamic |-> 1] >>
    /\ call.static = {"title"} /\ call.dynamic = {"album", "time"}

\* The element carries one conditional, a two-element list under display_if
\* or under display_ifnot, and the snapshot or STRING_CB resolves its source.
OneConditional(fd) ==
    \/ fd.display_ifnot = Absent /\ fd.display_if # Absent
         /\ fd.display_if.type = "list"
    \/ fd.display_if = Absent /\ fd.display_ifnot # Absent

ConditionalOf(fd) ==
    IF fd.display_ifnot = Absent THEN fd.display_if.items
    ELSE fd.display_ifnot.items

Resolves(func_name, info) == In(func_name, info) \/ func_name \in STRING_CB

\* The stringified value of a source that resolves.
SourceValue(func_name, info) ==
    IF In(func_name, info) THEN str(info[func_name])
    ELSE strcb_upnp_playback(info)

\* C26 as stated: the value of the source is compared with the literal
\* ignoring case if and only if the literal is "true" or "false", exactly
\* for every other literal; display_if gives True on equality and
\* display_ifnot on inequality.
C26_CaseFoldOnlyForTrueFalse ==
    (call.fn = "check_display_expr" /\ OneConditional(call.field_dict)
       /\ Resolves(ConditionalOf(call.field_dict)[1], call.info)) =>
        LET c == ConditionalOf(call.field_dict)
            v == SourceValue(c[1], call.info)
            equal == IF c[2] \in {"true", "false"}
                     THEN lower(v) = lower(c[2]) ELSE v = c[2]
        IN  call.result <=> (IF call.field_dict.display_ifnot = Absent
                             THEN equal ELSE ~equal)

\* C26, amended: the comparison ignores case if and only if the literal is
\* "true" or "false" in any capitalisation ("True", "TRUE", ...), and is
\* exact for every other literal; display_if gives True on equality and
\* display_ifnot on inequality.
C26_CaseFoldForAnyTrueFalse ==
    (call.fn = "check_display_expr" /\ OneConditional(call.field_dict)
       /\ Resolves(ConditionalOf(call.field_dict)[1], call.info)) =>
        LET c == ConditionalOf(call.field_dict)
            v == SourceValue(c[1], call.info)
            equal == IF c[2] \in {"true", "True", "TRUE", "false", "False", "FALSE"}
                     THEN lower(v) = lower(c[2]) ELSE v = c[2]
        IN  call.result <=> (IF call.field_dict.display_ifnot = Absent
                             THEN equal ELSE ~equal)

\* display_if = [System.ScreenSaverActive, "TRUE"] on the InfoBoolean True.
C26_Witness ==
    /\ call.fn = "check_display_expr"
    /\ call.field_dict = [display_if |-> List("System.ScreenSaverActive", "TRUE"),
                          display_ifnot |-> Absent]
    /\ call.info["System.ScreenSaverActive"] = Bool(TRUE)
    /\ call.result

\* The element has a conditional in use: a list under display_if, or else
\* under display_ifnot; its first item names the source.
ConditionalInUse(fd) ==
    \/ fd.display_if # Absent /\ fd.display_if.type = "list"
    \/ fd.display_ifnot # Absent

SourceInUse(fd) ==
    IF fd.display_if # Absent /\ fd.display_if.type = "list"
    THEN fd.display_if.items[1]
    ELSE fd.display_ifnot.items[1]

TrackLabels == {"MusicPlayer.Time", "MusicPlayer.Duration", "MusicPlayer.Cover",
                "Player.Filenameandpath", "MusicPlayer.Title",
                "MusicPlayer.Album", "MusicPlayer.TrackNumber"}

TrackValues(label) ==
    CASE label = "MusicPlayer.Time" -> {Absent, Str(""), Str("00:00"), Str("01:00")}
      [] label = "MusicPlayer.Duration" -> {Absent, Str(""), Str("03:00")}
      [] label = "MusicPlayer.Cover" -> {Absent, Str(""), Str("image://c")}
      [] label = "Player.Filenameandpath" -> {Absent, Str("pipe://a"), Str("smb://m")}
      [] label = "MusicPlayer.Title" -> {Absent, Str(""), Str("Song")}
      [] label = "MusicPlayer.Album" -> {Absent, Str("LP")}
      [] OTHER -> {Absent, Str("1")}

TrackSnapshots ==
    { [l \in TrackLabels |->
          CASE l = "MusicPlayer.Time" -> time
            [] l = "MusicPlayer.Duration" -> duration
            [] l = "MusicPlayer.Cover" -> cover
            [] l = "Player.Filenameandpath" -> path
            [] l = "MusicPlayer.Title" -> title
            [] l = "MusicPlayer.Album" -> album
            [] OTHER -> number] :
        time \in TrackValues("MusicPlayer.Time"),
        duration \in TrackValues("MusicPlayer.Duration"),
        cover \in TrackValues("MusicPlayer.Cover"),
        path \in TrackValues("Player.Filenameandpath"),
        title \in TrackValues("MusicPlayer.Title"),
        album \in TrackValues("MusicPlayer.Album"),
        number \in TrackValues("MusicPlayer.TrackNumber") }

\* The test of update_display() for a moment in which nothing is really
\* playing, with Python's left-to-right, short-circuit evaluation: "raise"
\* when a label that is read is not in track_info, else "pass" or "draw".
glitch_test(track_info) ==
    LET time == track_info["MusicPlayer.Time"]
        duration == track_info["MusicPlayer.Duration"]
        cover == track_info["MusicPlayer.Cover"]
        path == track_info["Player.Filenameandpath"]
        title == track_info["MusicPlayer.Title"]
        airplay ==
            IF path = Absent THEN "raise"
            ELSE IF path.s # "pipe://a" THEN "draw"
            ELSE IF title = Absent THEN "raise"
            ELSE IF title.s = "AirPlay" \/ title.s = "" THEN "pass"
            ELSE "draw"
    IN  IF time = Absent THEN "raise"
        ELSE IF ~(time.s = "00:00" \/ time.s = "00:00:00") THEN airplay
        ELSE IF duration = Absent THEN "raise"
        ELSE IF duration.s # "" THEN airplay
        ELSE IF cover = Absent THEN "raise"
        ELSE IF cover.s = "" THEN "pass"
        ELSE airplay

\* draw_fields(), a field without callback or format_str: drawn only when
\* its label is in info and is not the empty string.
field_resolved(name, info) ==
    IF In(name, info) /\ info[name].s # "" THEN info[name].s ELSE ""

\* audio_screens() on the first frame of a track (_static_image is None):
\* calc_progress() on Time and Duration, audio_screen_static() with the
\* cover and the static fields, the four labels remembered in _last_track_*,
\* then audio_screen_dynamic() with the progress bar.  The labels read by
\* name, in the order the code reads them.
audio_screens_reads ==
    << "MusicPlayer.Time", "MusicPlayer.Duration", "MusicPlayer.Cover",
       "MusicPlayer.TrackNumber", "MusicPlayer.Title", "MusicPlayer.Album",
       "MusicPlayer.Duration", "MusicPlayer.Time" >>

audio_screens_raises(info) ==
    \E i \in 1..Len(audio_screens_reads) : info[audio_screens_reads[i]] = Absent

\* The audio branch of update_display() from the response on: the outcome of
\* the tick and the text of the fields it drew.
audio_tick(track_info) ==
    LET test == glitch_test(track_info)
    IN  IF test = "raise" THEN [ends |-> "KeyError", fields |-> <<>>]
        ELSE IF test = "pass" THEN [ends |-> "skipped", fields |-> <<>>]
        ELSE IF audio_screens_raises(track_info)
             THEN [ends |-> "KeyError", fields |-> <<>>]
        ELSE [ends |-> "drawn",
              fields |-> << field_resolved("MusicPlayer.Title", track_info),
                            field_resolved("MusicPlayer.Album", track_info) >>]

AudioTickCall ==
    \E track_info \in TrackSnapshots :
        /\ call = NoCall
        /\ call' = [fn |-> "audio_tick", info |-> track_info,
                    result |-> audio_tick(track_info)]
        /\ UNCHANGED << art, cfg, now, _kodi_connected, _kodi_playing,
                        _screen_active, _screen_offtime, _screen_press, _lock,
                        _static_image, _static_video, _last_track,
                        _last_video, _last_thumb, audio_dmode, video_dmode,
                        slide_dmode, image, displayed, backlight, mainpc,
                        touchpc, obs, hist >>

InitAudioTick == Init /\ cfg = AllOn

SpecAudioTick == InitAudioTick /\ [][AudioTickCall]_vars

\* C28: whatever subset of the requested labels the snapshot leaves out, the
\* tick completes without raising, and a field whose label is missing or
\* empty is left out of the frame.
C28_MissingLabelNeverFails ==
    call.fn = "audio_tick" =>
        /\ call.result.ends # "KeyError"
        /\ call.result.ends = "drawn" =>
             \A i \in 1..2 :
                 LET label == << "MusicPlayer.Title", "MusicPlayer.Album" >>[i]
                 IN  (call.info[label] \in {Absent, Str("")})
                         => call.result.fields[i] = ""

(***************************************************************************)
(* format_InfoLabels().  A string is the sequence of its tokens: a brace,  *)
(* a word (a maximal run that \w*\.?\w* matches), or other text.  No two   *)
(* words are adjacent in a template.                                       *)
(***************************************************************************)

MaxTemplate == 4

Words == {"MusicPlayer.Title", "upnp_playback", "Song", "0", "1"}

TemplateTokens == {"{", "}", " - ", "MusicPlayer.Title", "upnp_playback"}

Templates ==
    { t \in UNION { [1..n -> TemplateTokens] : n \in 0..MaxTemplate } :
        \A i \in 1..(Len(t) - 1) : ~(t[i] \in Words /\ t[i + 1] \in Words) }

\* kodi_info: the InfoLabels are strings, the InfoBooleans merged into the
\* same dictionary are Python booleans.  A title is any text, braces
\* included.  A key named like a callback may be in the response.
FormatValues(key) ==
    IF key = "MusicPlayer.Title"
    THEN {Absent, Str(<<>>), Str(<< "Song" >>),
          Str(<< "{", "upnp_playback", "}" >>), Bool(TRUE)}
    ELSE {Absent, Str(<< "1" >>)}

FormatSnapshots ==
    { [key \in {"MusicPlayer.Title", "upnp_playback"} |->
           IF key = "MusicPlayer.Title" THEN title ELSE cb] :
        title \in FormatValues("MusicPlayer.Title"),
        cb \in FormatValues("upnp_playback") }

\* _InfoLabel_re.findall(orig_str), as a set: the fields between braces.
\* "{}" matches with the empty field.
findall(orig_str) ==
    { orig_str[i + 1] : i \in { j \in 1..(Len(orig_str) - 2) :
                                   /\ orig_str[j] = "{"
                                   /\ orig_str[j + 1] \in Words
                                   /\ orig_str[j + 2] = "}" } }
      \cup { "" : i \in { j \in 1..(Len(orig_str) - 1) :
                             orig_str[j] = "{" /\ orig_str[j + 1] = "}" } }

\* '{' + field + '}'
Placeholder(field) == IF field = "" THEN << "{", "}" >> ELSE << "{", field, "}" >>

\* str.replace(old, new): every occurrence, left to right, not overlapping.
RECURSIVE replace(_, _, _)
replace(string, old, new) ==
    IF Len(string) < Len(old) THEN string
    ELSE IF SubSeq(string, 1, Len(old)) = old
         THEN new \o replace(SubSeq(string, Len(old) + 1, Len(string)), old, new)
         ELSE << Head(string) >> \o replace(Tail(string), old, new)

\* The loop over the set of matches, taken in the order the set yields
\* them.  str.replace raises TypeError when the value is not a string.
RECURSIVE format_loop(_, _, _)
format_loop(new_str, order, kodi_info) ==
    IF order = <<>> THEN [ends |-> "returns", str |-> new_str]
    ELSE LET field == Head(order)
         IN  IF In(field, kodi_info)
             THEN IF kodi_info[field].type # "str"
                  THEN [ends |-> "TypeError", str |-> <<>>]
                  ELSE format_loop(replace(new_str, Placeholder(field),
                                           kodi_info[field].s),
                                   Tail(order), kodi_info)
             ELSE IF field \in STRING_CB
             THEN format_loop(replace(new_str, Placeholder(field),
                                      << strcb_upnp_playback(kodi_info) >>),
                              Tail(order), kodi_info)
             ELSE format_loop(replace(new_str, Placeholder(field), <<>>),
                              Tail(order), kodi_info)

\* The orders in which a set of strings may be iterated (the hash of a
\* string differs from one run of the interpreter to the next).
Orders(matches) ==
    { order \in [1..Cardinality(matches) -> matches] :
        \A i, j \in DOMAIN order : i # j => order[i] # order[j] }

format_InfoLabels(orig_str, kodi_info, order) ==
    format_loop(orig_str, order, kodi_info)

FormatInfoLabelsCall ==
    \E orig_str \in Templates, kodi_info \in FormatSnapshots :
        \E order \in Orders(findall(orig_str)) :
            /\ call = NoCall
            /\ call' = [fn |-> "format_InfoLabels", orig_str |-> orig_str,
                        info |-> kodi_info, order |-> order,
                        result |-> format_InfoLabels(orig_str, kodi_info, order)]
            /\ UNCHANGED << art, cfg, now, _kodi_connected, _kodi_playing,
                            _screen_active, _screen_offtime, _screen_press,
                            _lock, _static_image, _static_video, _last_track,
                            _last_video, _last_thumb, audio_dmode, video_dmode,
                            slide_dmode, image, displayed, backlight, mainpc,
                            touchpc, obs, hist >>

InitFormat == Init /\ cfg = AllOn

SpecFormat == InitFormat /\ [][FormatInfoLabelsCall]_vars

\* What a placeholder stands for: the telemetry value when the key is in the
\* snapshot, else the callback's result, else the empty string.
Stands(field, kodi_info) ==
    IF In(field, kodi_info)
    THEN IF kodi_info[field].type = "str" THEN kodi_info[field].s
         ELSE << str(kodi_info[field]) >>
    ELSE IF field \in STRING_CB THEN << strcb_upnp_playback(kodi_info) >>
    ELSE <<>>

\* The template with each of its placeholders replaced by what it stands
\* for, in one pass; the text outside placeholders is kept.
RECURSIVE Interpolated(_, _)
Interpolated(orig_str, kodi_info) ==
    IF orig_str = <<>> THEN <<>>
    ELSE IF Len(orig_str) >= 2 /\ SubSeq(orig_str, 1, 2) = << "{", "}" >>
         THEN Interpolated(SubSeq(orig_str, 3, Len(orig_str)), kodi_info)
    ELSE IF /\ Len(orig_str) >= 3 /\ orig_str[1] = "{"
            /\ orig_str[2] \in Words /\ orig_str[3] = "}"
         THEN Stands(orig_str[2], kodi_info)
                  \o Interpolated(SubSeq(orig_str, 4, Len(orig_str)), kodi_info)
    ELSE << Head(orig_str) >> \o Interpolated(Tail(orig_str), kodi_info)

\* C30: format_InfoLabels returns the template with every placeholder
\* replaced by the telemetry value, else the callback's result, else the
\* empty string; the text outside placeholders is unchanged and no
\* placeholder of the template is left in the result.
C30_EveryPlaceholderReplaced ==
    call.fn = "format_InfoLabels" =>
        /\ call.result.ends = "returns"
        /\ call.result.str = Interpolated(call.orig_str, call.info)
        /\ findall(call.result.str) \cap findall(call.orig_str) = {}

(***************************************************************************)
(* draw_fields(): the string of one field of an audio layout, from an      *)
(* element callback, a string callback, a format_str or the InfoLabel of   *)
(* the field's name.  The fields here have no display_if and no exclude.   *)
(***************************************************************************)

ELEMENT_CB == {"artist"}

\* element_audio_artist() on an audio screen.
element_audio_artist(info) ==
    IF info["MusicPlayer.Artist"].s # <<>> THEN info["MusicPlayer.Artist"].s
    ELSE IF info["MusicPlayer.Property(Role.Composer)"].s # <<>>
         THEN << "(" >> \o info["MusicPlayer.Property(Role.Composer)"].s \o << ")" >>
    ELSE <<>>

ResolutionFields ==
    [name : {"artist", "upnp_playback", "MusicPlayer.Title"},
     prefix : {Absent, Str(<< "P" >>)},
     suffix : {Absent, Str(<< "S" >>)},
     format_str : {Absent, Str(<<>>), Str(<< " - " >>),
                   Str(<< "{", "MusicPlayer.Title", "}" >>)}]

ResolutionSnapshots ==
    { [key \in {"MusicPlayer.Title", "MusicPlayer.Artist",
                "MusicPlayer.Property(Role.Composer)"} |->
           CASE key = "MusicPlayer.Title" -> title
             [] key = "MusicPlayer.Artist" -> artist
             [] OTHER -> composer] :
        title \in {Absent, Str(<<>>), Str(<< "Song" >>)},
        artist \in {Str(<<>>), Str(<< "Band" >>)},
        composer \in {Str(<<>>), Str(<< "Bach" >>)} }

\* field_dict.get(key, "")
get(field_dict, key) == IF field_dict[key] = Absent THEN <<>> ELSE field_dict[key].s

\* The prefix and suffix options after a callback.
permit_prefix_suffix(field_dict, display_string) ==
    IF display_string # <<>> /\ (In("prefix", field_dict) \/ In("suffix", field_dict))
    THEN get(field_dict, "prefix") \o display_string \o get(field_dict, "suffix")
    ELSE display_string

\* display_string when the loop reaches its test for an empty string: Absent
\* is Python's None.
display_string_of(field_dict, info) ==
    LET name == field_dict.name
    IN  IF name \in ELEMENT_CB
        THEN Str(permit_prefix_suffix(field_dict, element_audio_artist(info)))
        ELSE IF name \in STRING_CB
        THEN Str(permit_prefix_suffix(field_dict, << strcb_upnp_playback(info) >>))
        ELSE IF (In(name, info) /\ info[name].s # <<>>) \/ In("format_str", field_dict)
        THEN IF get(field_dict, "format_str") # <<>>
             THEN LET format_str == field_dict.format_str.s
                      order == CHOOSE o \in Orders(findall(format_str)) : TRUE
                  IN  Str(format_InfoLabels(format_str, info, order).str)
             ELSE IF In(name, info)
             THEN Str(get(field_dict, "prefix") \o info[name].s
                          \o get(field_dict, "suffix"))
             ELSE Absent
        ELSE Absent

\* What the field draws: nothing (the empty sequence) when display_string
\* is None or empty, else display_string.
rendered(field_dict, info) ==
    LET display_string == display_string_of(field_dict, info)
    IN  IF display_string = Absent THEN <<>> ELSE display_string.s

DrawFieldCall ==
    \E field_dict \in ResolutionFields, info \in ResolutionSnapshots :
        /\ call = NoCall
        /\ call' = [fn |-> "draw_field", field_dict |-> field_dict,
                    info |-> info, rendered |-> rendered(field_dict, info)]
        /\ UNCHANGED << art, cfg, now, _kodi_connected, _kodi_playing,
                        _screen_active, _screen_offtime, _screen_press, _lock,
                        _static_image, _static_video, _last_track,
                        _last_video, _last_thumb, audio_dmode, video_dmode,
                        slide_dmode, image, displayed, backlight, mainpc,
                        touchpc, obs, hist >>

InitResolution == Init /\ cfg = AllOn

SpecResolution == InitResolution /\ [][DrawFieldCall]_vars

\* The resolved string of a field, by the path that resolves it: the
\* callback's result, the interpolated template, or the InfoLabel.
ResolvedString(field_dict, info) ==
    IF field_dict.name \in ELEMENT_CB THEN element_audio_artist(info)
    ELSE IF field_dict.name \in STRING_CB THEN << strcb_upnp_playback(info) >>
    ELSE IF get(field_dict, "format_str") # <<>>
         THEN Interpolated(field_dict.format_str.s, info)
    ELSE IF In(field_dict.name, info) THEN info[field_dict.name].s
    ELSE <<>>

\* C29: on each of the three paths a non-empty resolved string is rendered
\* as prefix + resolved + suffix, and an empty one renders nothing, whatever
\* prefix or suffix the field has.
C29_PrefixSuffixOnEveryPath ==
    call.fn = "draw_field" =>
        LET resolved == ResolvedString(call.field_dict, call.info)
        IN  call.rendered =
                IF resolved = <<>> THEN <<>>
                ELSE get(call.field_dict, "prefix") \o resolved
                         \o get(call.field_dict, "suffix")

(***************************************************************************)
(* progress_bar() and the dynamic pass.  A number of a layout is Num(n);   *)
(* a progress is the fraction num/den with den > 0.                        *)
(***************************************************************************)

Num(n) == [type |-> "int", n |-> n]

\* The "prog" entries of a layout: vertical is absent, True or False, and
\* each of the three length keys is absent or a number.
ProgDicts ==
    [vertical : {Absent, Bool(TRUE), Bool(FALSE)},
     len : {Absent, Num(0), Num(10)},
     short_len : {Absent, Num(6)},
     long_len : {Absent, Num(8)}]

\* Values of the progress argument: -1, 0, 1/2, 1 and 3/2.
Progresses ==
    { [num |-> -1, den |-> 1], [num |-> 0, den |-> 1], [num |-> 1, den |-> 2],
      [num |-> 1, den |-> 1], [num |-> 3, den |-> 2] }

\* The key that gives the long dimension w, "" when there is none.
LengthKey(field_dict, use_long_len) ==
    IF In("vertical", field_dict) /\ field_dict.vertical.b /\ In("len", field_dict)
    THEN "len"
    ELSE IF use_long_len /\ In("long_len", field_dict) THEN "long_len"
    ELSE IF In("short_len", field_dict) THEN "short_len"
    ELSE IF In("len", field_dict) THEN "len"
    ELSE ""

\* progress_bar(draw, field_dict, progress, use_long_len): what is drawn.
\* Nothing when w is 0; else the background rectangle and the foreground
\* rectangle, whose direction follows the presence of the "vertical" key.
progress_bar(field_dict, progress, use_long_len) ==
    LET key == LengthKey(field_dict, use_long_len)
        w == IF key = "" THEN 0 ELSE field_dict[key].n
        clamped == IF progress.num <= 0 THEN [num |-> 1, den |-> 1000]
                   ELSE IF progress.num > progress.den THEN [num |-> 1, den |-> 1]
                   ELSE progress
    IN  IF w = 0
        THEN [drawn |-> FALSE, key |-> key, w |-> 0, progress |-> progress,
              fill |-> [num |-> 0, den |-> 1], direction |-> ""]
        ELSE [drawn |-> TRUE, key |-> key, w |-> w, progress |-> progress,
              fill |-> clamped,
              direction |-> IF In("vertical", field_dict) THEN "bottom-to-top"
                            ELSE "left-to-right"]

ProgressBarCall ==
    \E field_dict \in ProgDicts, progress \in Progresses, use_long_len \in BOOLEAN :
        /\ call = NoCall
        /\ call' = [fn |-> "progress_bar", field_dict |-> field_dict,
                    use_long_len |-> use_long_len,
                    result |-> progress_bar(field_dict, progress, use_long_len)]
        /\ UNCHANGED << art, cfg, now, _kodi_connected, _kodi_playing,
                        _screen_active, _screen_offtime, _screen_press, _lock,
                        _static_image, _static_video, _last_track,
                        _last_video, _last_thumb, audio_dmode, video_dmode,
                        slide_dmode, image, displayed, backlight, mainpc,
                        touchpc, obs, hist >>

InitProgressBar == Init /\ cfg = AllOn

SpecProgressBar == InitProgressBar /\ [][ProgressBarCall]_vars

\* The audio layouts of the dynamic pass: no "prog" entry, a horizontal bar,
\* and a bar without any length key.
DynamicLayouts ==
    { [prog |-> Absent],
      [prog |-> [vertical |-> Absent, len |-> Absent,
                 short_len |-> Num(6), long_len |-> Num(8)]],
      [prog |-> [vertical |-> Absent, len |-> Absent,
                 short_len |-> Absent, long_len |-> Absent]] }

NoBar == [drawn |-> FALSE, key |-> "", w |-> 0,
          progress |-> [num |-> 0, den |-> 1],
          fill |-> [num |-> 0, den |-> 1], direction |-> ""]

\* audio_screen_dynamic(image, draw, layout, info, prog): the bar it draws
\* and whether progress_bar() was called.
audio_screen_dynamic(layout, time_str, prog) ==
    IF prog.num = -1 \/ ~In("prog", layout)
    THEN [invoked |-> FALSE, bar |-> NoBar]
    ELSE IF ~show_prog(layout.prog, << >>)
    THEN [invoked |-> FALSE, bar |-> NoBar]
    ELSE [invoked |-> TRUE,
          bar |-> progress_bar(layout.prog, prog, count(time_str) = 2)]

\* audio_screens() from calc_progress() to the dynamic pass: a ValueError of
\* calc_progress() leaves audio_screens() before anything is drawn.
dynamic_pass(layout, time_str, duration_str) ==
    LET prog == calc_progress_str(time_str, duration_str)
    IN  IF prog.exc # ""
        THEN [ends |-> prog.exc, invoked |-> FALSE, bar |-> NoBar]
        ELSE LET d == audio_screen_dynamic(layout, time_str,
                                           [num |-> prog.num, den |-> prog.den])
             IN  [ends |-> "returns", invoked |-> d.invoked, bar |-> d.bar]

DynamicPassCall ==
    \E layout \in DynamicLayouts, time_str \in Strings, duration_str \in Strings :
        /\ call = NoCall
        /\ call' = [fn |-> "audio_screen_dynamic", layout |-> layout,
                    time_str |-> time_str, duration_str |-> duration_str,
                    result |-> dynamic_pass(layout, time_str, duration_str)]
        /\ UNCHANGED << art, cfg, now, _kodi_connected, _kodi_playing,
                        _screen_active, _screen_offtime, _screen_press, _lock,
                        _static_image, _static_video, _last_track,
                        _last_video, _last_thumb, audio_dmode, video_dmode,
                        slide_dmode, image, displayed, backlight, mainpc,
                        touchpc, obs, hist >>

InitDynamic == Init /\ cfg = AllOn

SpecDynamic == InitDynamic /\ [][DynamicPassCall]_vars

\* C31: with a total duration that is empty, zero or unparsable the dynamic
\* pass completes and draws no progress bar; progress_bar is never called
\* with -1; and a bar that is drawn is filled to current/total, clamped to
\* the range from 0 to 1.
C31_NoBarWithoutTotal ==
    call.fn = "audio_screen_dynamic" =>
        LET r == call.result
            d == call.duration_str
            t == call.time_str
        IN  /\ (d = <<>> \/ ~Parsable(d) \/ Seconds(d) = 0) =>
                  (r.ends = "returns" /\ ~r.bar.drawn)
            /\ r.invoked => r.bar.progress.num # -1
            /\ r.bar.drawn =>
                  /\ Parsable(t) /\ Parsable(d)
                  /\ LET cur == Seconds(t)
                         total == Seconds(d)
                     IN  IF cur >= total THEN r.bar.fill = [num |-> 1, den |-> 1]
                         ELSE r.bar.fill.num * total = cur * r.bar.fill.den

\* C37: a bar that is drawn is filled bottom-to-top exactly when the value
\* of 'vertical' is true, and left-to-right otherwise; a bottom-to-top bar
\* takes its length from "len" and a left-to-right bar from "short_len" or
\* "long_len", whenever the spec has that key.
C37_OrientationConsistent ==
    (call.fn = "progress_bar" /\ call.result.drawn) =>
        LET fd == call.field_dict
            r == call.result
            vertical == In("vertical", fd) /\ fd.vertical.b
        IN  /\ (r.direction = "bottom-to-top") <=> vertical
            /\ (r.direction = "left-to-right") <=> ~vertical
            /\ (r.direction = "bottom-to-top" /\ In("len", fd)) => r.key = "len"
            /\ (r.direction = "left-to-right"
                  /\ (In("short_len", fd) \/ (call.use_long_len /\ In("long_len", fd))))
                 => r.key \in {"short_len", "long_len"}

(***************************************************************************)
(* The wait of main() after a tick.  Times are in milliseconds.            *)
(***************************************************************************)

MaxElapsed == 1200

\* 0.985 s, the period of the update loop.
PERIOD == 985

\* A wait of one second whatever the tick cost.
main_wait_fixed(elapsed) == 1000

\* The timeout main() passes to _screen_press.wait() after a tick that took
\* elapsed.
main_wait(elapsed) ==
    IF elapsed < PERIOD THEN PERIOD - elapsed ELSE 1000

MainWaitCall ==
    \E elapsed \in 0..MaxElapsed :
        /\ call = NoCall
        /\ call' = [fn |-> "main_wait", elapsed |-> elapsed,
                    wait |-> main_wait(elapsed)]
        /\ UNCHANGED << art, cfg, now, _kodi_connected, _kodi_playing,
                        _screen_active, _screen_offtime, _screen_press, _lock,
                        _static_image, _static_video, _last_track,
                        _last_video, _last_thumb, audio_dmode, video_dmode,
                        slide_dmode, image, displayed, backlight, mainpc,
                        touchpc, obs, hist >>

InitMainWait == Init /\ cfg = AllOn

SpecMainWait == InitMainWait /\ [][MainWaitCall]_vars

\* C32: for every tick cost elapsed >= 0 the wait is strictly positive and
\* at most one second; after a tick shorter than the period it is the rest
\* of the period, so that tick and wait together last more than one period
\* only when the tick alone reached the period.
C32_WaitIsRemainder ==
    call.fn = "main_wait" =>
        /\ 0 < call.wait /\ call.wait <= 1000
        /\ call.elapsed < PERIOD => call.wait = PERIOD - call.elapsed
        /\ call.elapsed + call.wait > PERIOD => call.elapsed >= PERIOD

\* A tick of half a second is followed by a wait of 485 ms.
C32_Witness ==
    call.fn = "main_wait" /\ call.elapsed = 500 /\ call.wait = 485

(***************************************************************************)
(* A process-level interrupt: KeyboardInterrupt or SystemExit raised in    *)
(* the main thread, wherever it is.                                        *)
(***************************************************************************)

\* shutdown(): GPIO.remove_event_detect() and exit(0).  The lock is left as
\* it is.
shutdown(kind, phase, lock) ==
    [fn |-> "interrupt", kind |-> kind, phase |-> phase, shutdown |-> TRUE,
     removed |-> TRUE, lock |-> lock, exited |-> TRUE]

\* One interrupt.  In the ping loop, inside the try, "except BaseException"
\* catches it and the loop goes on; inside update_display() main() calls
\* shutdown(); anywhere else (the waiting screen, the sleep of a handler of
\* the ping loop, the wait between ticks) it leaves main(): the scripts that
\* call main() catch KeyboardInterrupt and call shutdown(), and nothing
\* catches SystemExit.
Interrupt(kind, where) ==
    /\ call = NoCall
    /\ mainpc # "exited"
    /\ IF mainpc = "ping" /\ where = "try"
       THEN /\ call' = [fn |-> "interrupt", kind |-> kind, phase |-> mainpc,
                        shutdown |-> FALSE, removed |-> FALSE, lock |-> _lock,
                        exited |-> FALSE]
            /\ UNCHANGED mainpc
       ELSE IF mainpc = "cs" \/ kind = "KeyboardInterrupt"
       THEN /\ call' = shutdown(kind, mainpc, _lock)
            /\ mainpc' = "exited"
       ELSE /\ call' = [fn |-> "interrupt", kind |-> kind, phase |-> mainpc,
                        shutdown |-> FALSE, removed |-> FALSE, lock |-> _lock,
                        exited |-> TRUE]
            /\ mainpc' = "exited"
    /\ UNCHANGED << art, cfg, now, _kodi_connected, _kodi_playing,
                    _screen_active, _screen_offtime, _screen_press, _lock,
                    _static_image, _static_video, _last_track, _last_video,
                    _last_thumb, audio_dmode, video_dmode, slide_dmode, image,
                    displayed, backlight, touchpc, obs, hist >>

\* The main loop and presses through the press event, the interrupt
\* coming at any point.
NextInterrupt ==
    \/ MainWaiting
    \/ \E outcome \in {"pong", "notpong", "ConnectionError"} : MainPing(outcome)
    \/ MainAcquire
    \/ MainTick
    \/ TouchCallback
    \/ \E kind \in {"KeyboardInterrupt", "SystemExit"}, where \in {"try", "handler"} :
         Interrupt(kind, where)

InitInterrupt == Init /\ cfg = Only("AUDIO", FALSE)

SpecInterrupt == InitInterrupt /\ [][NextInterrupt]_vars

\* C33: an interrupt delivered in any phase of main() leads to shutdown(),
\* which leaves the lock released and the touch interrupt removed, and the
\* process exits.
C33_InterruptShutsDown ==
    call.fn = "interrupt" =>
        /\ call.shutdown /\ call.exited
        /\ call.removed
        /\ ~call.lock

(***************************************************************************)
(* Presses and the artwork cache.  get_artwork() is cached on all of its   *)
(* arguments, the thumb size of the layout among them; a press clears      *)
(* _last_thumb and _static_image and not the cache of get_artwork().       *)
(***************************************************************************)

\* thumb width and height of the audio layouts: a small cover beside the
\* text, and the two full-screen layouts with one size.
ThumbSize(dmode) == IF dmode = "A_DEFAULT" THEN "small" ELSE "full"

\* get_artwork(cover_path, thumb_width, thumb_height, use_defaults) under
\* @lru_cache, the size being part of the key.
get_artwork_sized(a, cover_path, size, use_defaults, prep, answer) ==
    LET key == [cover_path |-> cover_path, size |-> size,
                use_defaults |-> use_defaults]
        cached == {e \in a.memo : e.key = key}
        r == get_artwork_body(cover_path, use_defaults, prep, answer)
    IN  IF cached # {}
        THEN [a EXCEPT !.last = [NoResolution EXCEPT
                                   !.fn = "get_artwork",
                                   !.cover_path = cover_path,
                                   !.use_defaults = use_defaults,
                                   !.hit = TRUE,
                                   !.result = (CHOOSE e \in cached : TRUE).image]]
        ELSE [a EXCEPT !.last = r,
                       !.memo = IF r.exc = "" THEN @ \cup {[key |-> key, image |-> r.result]}
                                ELSE @]

\* Two tracks of one album, with different covers.
PressInfos == { A0, [A0 EXCEPT !.title = "Song B", !.cover = "c2"] }

\* One tick of update_display() with audio playing, the press event set or
\* not when it starts, and requests that are answered: the press handling
\* of update_display(), audio_screens(), and the artwork of the static
\* render.
PressTick ==
    \E info \in PressInfos, press \in BOOLEAN, answer \in {"200", "404"} :
        LET s == [Globals EXCEPT !._screen_press = press]
            r == AudioPath(s, FALSE, info)
            thumb == r.obs.rebuilt /\ AUDIO_LAYOUT(r.audio_dmode).thumb
            a == IF thumb
                 THEN get_artwork_sized(art, info.cover, ThumbSize(r.audio_dmode),
                                        TRUE, "path", answer)
                 ELSE [art EXCEPT !.last = NoResolution]
        IN  /\ art' = a
            /\ SetGlobals(Display(WithThumb(r, a.last.result)))
            /\ call' = [fn |-> "press_tick", press |-> press,
                        advanced |-> (r.audio_dmode # audio_dmode),
                        static |-> thumb, hit |-> a.last.hit,
                        get |-> a.last.get,
                        before |-> { e.image : e \in art.memo },
                        thumb |-> a.last.result]
            /\ UNCHANGED << cfg, now, _lock, mainpc, touchpc, obs, hist >>

InitArtPress == Init /\ cfg = Only("AUDIO", FALSE)

SpecArtPress == InitArtPress /\ [][PressTick]_vars

\* C34: the static render of a tick whose press changed the layout gets the
\* cover by a GET of the image and not from what was fetched before the
\* press.
C34_PressRefetchesArtwork ==
    (call.fn = "press_tick" /\ call.press /\ call.advanced /\ call.static) =>
        /\ call.get = 1
        /\ ~call.hit

\* C35: truncate_line ends and returns a result for every line, font and
\* max_width.
C35_TruncateTerminates ==
    call.fn = "truncate_line" => call.result.outcome = "returns"

(***************************************************************************)
(* text_wrap().  A text is the sequence of its characters; a space is as   *)
(* wide as an "i".  max_lines None is 0, which the code treats alike.      *)
(***************************************************************************)

MaxText == 4

WrapTexts == UNION { [1..n -> {"i", "W", " "}] : n \in 1..MaxText }

\* text.split(' '): the parts between the spaces, empty parts included.
RECURSIVE split_spaces(_)
split_spaces(text) ==
    IF \A k \in 1..Len(text) : text[k] # " " THEN << text >>
    ELSE LET i == CHOOSE k \in 1..Len(text) :
                      text[k] = " " /\ \A j \in 1..(k - 1) : text[j] # " "
         IN  << SubSeq(text, 1, i - 1) >> \o split_spaces(SubSeq(text, i + 1, Len(text)))

\* " ".join(words)
RECURSIVE join(_)
join(words) ==
    IF words = <<>> THEN <<>>
    ELSE IF Len(words) = 1 THEN words[1]
    ELSE words[1] \o << " " >> \o join(Tail(words))

\* The inner loop: words are appended to the line, each followed by a
\* space, while the line with the next word is not wider than max_width.
RECURSIVE wrap_line(_, _, _, _, _)
wrap_line(words, i, line, font, max_width) ==
    IF i <= Len(words) /\ getsize(font, line \o words[i]) <= max_width
    THEN wrap_line(words, i + 1, line \o words[i] \o << " " >>, font, max_width)
    ELSE [line |-> line, i |-> i]

\* The outer loop: a word that fits on no line is a line of its own; the
\* loop is left when all but the last of max_lines lines are there.
RECURSIVE wrap_lines(_, _, _, _, _, _)
wrap_lines(words, i, lines, font, max_width, max_lines) ==
    IF i > Len(words) THEN [lines |-> lines, i |-> i]
    ELSE LET f == wrap_line(words, i, <<>>, font, max_width)
             line == IF f.line = <<>> THEN words[i] ELSE f.line
             next == IF f.line = <<>> THEN i + 1 ELSE f.i
             more == Append(lines, line)
         IN  IF max_lines # 0 /\ Len(more) >= max_lines - 1
             THEN [lines |-> more, i |-> next]
             ELSE wrap_lines(words, next, more, font, max_width, max_lines)

\* text_wrap(text, font, max_width, max_lines): the lines, and whether the
\* call returns or hangs in truncate_line().
text_wrap(text, font, max_width, max_lines) ==
    IF getsize(font, text) <= max_width
    THEN [outcome |-> "returns", lines |-> << text >>]
    ELSE IF max_lines = 1
    THEN LET t == truncate_line(text, font, max_width)
         IN  [outcome |-> t.outcome, lines |-> << t.text >>]
    ELSE LET words == split_spaces(text)
             w == wrap_lines(words, 1, <<>>, font, max_width, max_lines)
         IN  IF max_lines # 0 /\ Len(w.lines) >= max_lines - 1 /\ w.i <= Len(words)
             THEN LET t == truncate_line(join(SubSeq(words, w.i, Len(words))),
                                         font, max_width)
                  IN  [outcome |-> t.outcome, lines |-> Append(w.lines, t.text)]
             ELSE [outcome |-> "returns", lines |-> w.lines]

TextWrapCall ==
    \E text \in WrapTexts, font \in Fonts, max_width \in 0..MaxWidth,
       max_lines \in 0..3 :
        /\ call = NoCall
        /\ call' = [fn |-> "text_wrap", text |-> text, font |-> font,
                    max_width |-> max_width, max_lines |-> max_lines,
                    result |-> text_wrap(text, font, max_width, max_lines)]
        /\ UNCHANGED << art, cfg, now, _kodi_connected, _kodi_playing,
                        _screen_active, _screen_offtime, _screen_press, _lock,
                        _static_image, _static_video, _last_track,
                        _last_video, _last_thumb, audio_dmode, video_dmode,
                        slide_dmode, image, displayed, backlight, mainpc,
                        touchpc, obs, hist >>

InitWrap == Init /\ cfg = AllOn

SpecWrap == InitWrap /\ [][TextWrapCall]_vars

\* The words of a text: the non-empty parts between its spaces, in order.
RECURSIVE NonEmpty(_)
NonEmpty(words) ==
    IF words = <<>> THEN <<>>
    ELSE IF Head(words) = <<>> THEN NonEmpty(Tail(words))
    ELSE << Head(words) >> \o NonEmpty(Tail(words))

WordsOf(text) == NonEmpty(split_spaces(text))

RECURSIVE WordsOfLines(_)
WordsOfLines(lines) ==
    IF lines = <<>> THEN <<>>
    ELSE WordsOf(Head(lines)) \o WordsOfLines(Tail(lines))

\* The last line ends in the ellipsis.
Truncated(lines) ==
    LET last == lines[Len(lines)]
    IN  last # <<>> /\ last[Len(last)] = Ellipsis

\* C36: text_wrap ends for every input; with max_lines >= 1 it returns
\* between one and max_lines lines; and when the last line was not
\* truncated the words of the lines are the words of the text, in order.
C36_WrapKeepsWords ==
    call.fn = "text_wrap" =>
        LET r == call.result
        IN  /\ r.outcome = "returns"
            /\ call.max_lines >= 1 =>
                  (1 <= Len(r.lines) /\ Len(r.lines) <= call.max_lines)
            /\ ~Truncated(r.lines) => WordsOfLines(r.lines) = WordsOf(call.text)

(***************************************************************************)
(* The backlight over a tick.                                              *)
(***************************************************************************)

\* The tick of the main thread that starts in this state, with the
\* backlight on, calls screen_off() at its top: the wake time has run out
\* and _kodi_playing, as the tick before left it, is False.
OffAtTop ==
    /\ backlight = "on"
    /\ ~cfg.IDLE_STATUS_ENABLED /\ ScreenExpired(Globals, now) /\ ~_kodi_playing

\* A step in which update_display() runs in the main thread and returns.
TickReturns == mainpc = "cs" /\ mainpc' # "cs" /\ obs'.exc = ""

PlayingScreens == {"audio_screens", "video_screens", "slideshow_screens"}

\* C38: a tick that rendered a playing-media screen or the status screen
\* ends with the backlight on; an idle tick that rendered no status screen
\* ends with it off; and a tick that renders a playing-media screen does
\* not switch the backlight off.
C38_BacklightFollowsScreen ==
    [][TickReturns =>
         /\ obs'.render \in PlayingScreens \cup {"status_screen"}
              => obs'.backlight = "on"
         /\ (obs'.branch = "status" /\ obs'.render = "") => obs'.backlight = "off"
         /\ obs'.render \in PlayingScreens => ~OffAtTop]_vars

(***************************************************************************)
(* Presses while Kodi is away.  The GPIO interrupt calls touch_callback(), *)
(* which tests _kodi_connected; the multi-touch front end calls            *)
(* press_handler(), which sets the event whatever the connection.  call    *)
(* keeps how the last press found the connection.                          *)
(***************************************************************************)

\* kodi_panel_fb_multitouch.press_handler() on TS_PRESS.
press_handler ==
    /\ _screen_press' = TRUE
    /\ call' = [fn |-> "press", connected |-> _kodi_connected]
    /\ UNCHANGED << art, cfg, now, _kodi_connected, _kodi_playing,
                    _screen_active, _screen_offtime, _lock, _static_image,
                    _static_video, _last_track, _last_video, _last_thumb,
                    audio_dmode, video_dmode, slide_dmode, image, displayed,
                    backlight, mainpc, touchpc, obs, hist >>

\* touch_callback() without TOUCH_CALL_UPDATE.
touch_callback ==
    /\ _kodi_connected
    /\ ~cfg.TOUCH_CALL_UPDATE
    /\ _screen_press' = TRUE
    /\ call' = [fn |-> "press", connected |-> TRUE]
    /\ UNCHANGED << art, cfg, now, _kodi_connected, _kodi_playing,
                    _screen_active, _screen_offtime, _lock, _static_image,
                    _static_video, _last_track, _last_video, _last_thumb,
                    audio_dmode, video_dmode, slide_dmode, image, displayed,
                    backlight, mainpc, touchpc, obs, hist >>

NextSession ==
    \/ MainWaiting
    \/ \E outcome \in {"pong", "notpong", "ConnectionError"} : MainPing(outcome)
    \/ MainAcquire
    \/ WakeTick
    \/ press_handler
    \/ touch_callback

InitSession == Init /\ cfg = Only("AUDIO", FALSE)

SpecSession == InitSession /\ [][NextSession]_vars

\* C39: when the last press came while the session was disconnected, the
\* press event is clear whenever a tick of the connected session that
\* follows is about to start or is running: that press advances no layout
\* and wakes no status screen.
C39_DisconnectedPressDropped ==
    (call.fn = "press" /\ ~call.connected /\ _kodi_connected
        /\ mainpc \in {"top", "cs"}) => ~_screen_press

\* A press while disconnected, then 'pong', and the first tick running with
\* the press event clear.
C39_Witness ==
    /\ call.fn = "press" /\ ~call.connected
    /\ _kodi_connected /\ mainpc = "cs" /\ ~_screen_press

(***************************************************************************)
(* ws_multitouch.Touchscreen: run(), stop() and the polling thread, next   *)
(* to main().  call holds the object: _running, _thread (0 for None, else  *)
(* the thread), the caller's position and each thread's position.          *)
(***************************************************************************)

MaxThreads == 2

Threads == 1 .. MaxThreads

TouchscreenUnchanged ==
    UNCHANGED << art, cfg, now, _kodi_connected, _kodi_playing,
                 _screen_active, _screen_offtime, _lock, _static_image,
                 _static_video, _last_track, _last_video, _last_thumb,
                 audio_dmode, video_dmode, slide_dmode, image, displayed,
                 backlight, mainpc, touchpc, obs, hist >>

\* Touchscreen.__init__(): ts = Touchscreen("WaveShare WaveShare").
Touchscreen ==
    /\ call = NoCall
    /\ call' = [fn |-> "Touchscreen", _running |-> FALSE, _thread |-> 0,
                pc |-> "idle", threads |-> [t \in Threads |-> "unborn"]]
    /\ UNCHANGED _screen_press
    /\ TouchscreenUnchanged

\* run(): returns when a thread is registered, else creates and starts one.
run ==
    /\ call.fn = "Touchscreen" /\ call.pc = "idle"
    /\ IF call._thread # 0
         THEN UNCHANGED call
         ELSE \E t \in Threads :
                /\ call.threads[t] = "unborn"
                /\ \A u \in Threads : u < t => call.threads[u] # "unborn"
                /\ call' = [call EXCEPT !._thread = t,
                                        !.threads[t] = "start"]
    /\ UNCHANGED _screen_press
    /\ TouchscreenUnchanged

\* stop(): the test of _thread.
stop_check ==
    /\ call.fn = "Touchscreen" /\ call.pc = "idle"
    /\ call' = [call EXCEPT !.pc = IF call._thread = 0 THEN "idle"
                                                       ELSE "clear"]
    /\ UNCHANGED _screen_press
    /\ TouchscreenUnchanged

\* stop(): self._running = False.
stop_clear ==
    /\ call.fn = "Touchscreen" /\ call.pc = "clear"
    /\ call' = [call EXCEPT !._running = FALSE, !.pc = "join"]
    /\ UNCHANGED _screen_press
    /\ TouchscreenUnchanged

\* stop(): self._thread.join() returns once the thread has ended; then
\* self._thread = None.
stop_join ==
    /\ call.fn = "Touchscreen" /\ call.pc = "join"
    /\ call.threads[call._thread] = "exited"
    /\ call' = [call EXCEPT !._thread = 0, !.pc = "idle"]
    /\ UNCHANGED _screen_press
    /\ TouchscreenUnchanged

\* _poll_loop(): self._running = True.
poll_start(t) ==
    /\ call.fn = "Touchscreen" /\ call.threads[t] = "start"
    /\ call' = [call EXCEPT !._running = TRUE, !.threads[t] = "test"]
    /\ UNCHANGED _screen_press
    /\ TouchscreenUnchanged

\* _poll_loop(): while self._running.
poll_test(t) ==
    /\ call.fn = "Touchscreen" /\ call.threads[t] = "test"
    /\ call' = [call EXCEPT !.threads[t] = IF call._running THEN "poll"
                                                            ELSE "exited"]
    /\ UNCHANGED _screen_press
    /\ TouchscreenUnchanged

\* _poll_loop(): poll_once() and the sleep; a TS_PRESS reaches
\* press_handler(), which sets _screen_press.
poll_once(t, event) ==
    /\ call.fn = "Touchscreen" /\ call.threads[t] = "poll"
    /\ call' = [call EXCEPT !.threads[t] = "test"]
    /\ _screen_press' = IF event = "TS_PRESS" THEN TRUE ELSE _screen_press
    /\ TouchscreenUnchanged

NextTouchscreen ==
    \/ Touchscreen
    \/ run
    \/ stop_check
    \/ stop_clear
    \/ stop_join
    \/ \E t \in Threads : poll_start(t)
    \/ \E t \in Threads : poll_test(t)
    \/ \E t \in Threads, event \in {"none", "TS_PRESS"} : poll_once(t, event)
    \/ MainWaiting
    \/ \E outcome \in {"pong", "notpong", "ConnectionError"} : MainPing(outcome)
    \/ MainAcquire
    \/ WakeTick

InitTouchscreen == Init /\ cfg = Only("AUDIO", FALSE)

SpecTouchscreen == InitTouchscreen /\ [][NextTouchscreen]_vars

LiveThreads == { t \in Threads : call.threads[t] \notin {"unborn", "exited"} }

\* C40: once stop() has cleared _running and waits in join(), _running is
\* False, so the loop's next test sees it and the thread ends; and at most
\* one polling thread is alive at a time.
C40_StopTerminates ==
    call.fn = "Touchscreen" =>
        /\ call.pc = "join" => ~call._running
        /\ Cardinality(LiveThreads) <= 1

====
